---- MODULE Spec2Model ----
(***************************************************************************)
(* Model of tools/model-evaluator/main.py: the SQLite store (models,       *)
(* sources, raw_metrics, links, standards, scores), the metric ingestion   *)
(* of evaluate_and_store_metrics / ingest_bfcl_results and the scoring     *)
(* engine (compute_norm_params, normalize_value, score_model_category,     *)
(* rescore_all).                                                           *)
(*                                                                         *)
(* Python floats are modelled as exact rationals <<n, d>> with d > 0 in    *)
(* lowest terms.  Every value of the model is a multiple of 1/1000 or      *)
(* coarser, so the code's test abs(mx - mn) < 1e-12 is the test mx = mn.   *)
(* math.log1p is modelled by its value rounded to 1/1000 on the values     *)
(* the model feeds it (a strictly increasing table).                       *)
(***************************************************************************)
EXTENDS Integers, Sequences, FiniteSets, TLC

----------------------------------------------------------------------------
(* Rational arithmetic standing for Python float arithmetic.               *)

RECURSIVE GCD(_, _)
GCD(a, b) == IF b = 0 THEN a ELSE GCD(b, a % b)

Abs(i) == IF i < 0 THEN -i ELSE i

RNorm(n, d) ==
    LET s == IF d < 0 THEN -1 ELSE 1
        g == GCD(Abs(n), Abs(d))
    IN  <<(s * n) \div g, (s * d) \div g>>

R(n) == <<n, 1>>
Frac(n, d) == RNorm(n, d)

LCM(a, b) == (a \div GCD(a, b)) * b
RAdd(a, b) ==
    LET d == LCM(a[2], b[2])
    IN  RNorm(a[1] * (d \div a[2]) + b[1] * (d \div b[2]), d)
RSub(a, b) == RAdd(a, <<-b[1], b[2]>>)
RMul(a, b) == RNorm(a[1] * b[1], a[2] * b[2])
RDiv(a, b) == RNorm(a[1] * b[2], a[2] * b[1])
RLt(a, b) == a[1] * b[2] < b[1] * a[2]
RLe(a, b) == a[1] * b[2] <= b[1] * a[2]
RMin(a, b) == IF RLt(b, a) THEN b ELSE a
RMax(a, b) == IF RLt(a, b) THEN b ELSE a
RAbs(a) == <<Abs(a[1]), a[2]>>

Zero == R(0)
One == R(1)
Half == Frac(1, 2)

\* min(...) / max(...) of a non-empty set of rationals
RSetMin(S) == CHOOSE x \in S : \A y \in S : RLe(x, y)
RSetMax(S) == CHOOSE x \in S : \A y \in S : RLe(y, x)

\* Python's None for optional floats and tuples; an optional dict or
\* object is None or Some(it)
None == <<>>
Some(x) == <<x>>
\* SQL NULL / Python None for optional strings
NULL == "NULL"

\* abs(x) < 1e-12 on the model's value grid
NearZero(x) == x[1] = 0

----------------------------------------------------------------------------
(* Utilities: clamp01, transform_value.                                    *)

\* max(0.0, x): the upper bound forgotten
clamp01_no_upper(x) == RMax(Zero, x)

clamp01(x) == RMax(Zero, RMin(One, x))

\* math.log1p rounded to 1/1000, on the values that reach it
Log1pTable ==
    { <<Zero, 0>>, <<Frac(1, 100), 10>>, <<Half, 405>>, <<R(1), 693>>,
      <<R(2), 1099>>, <<R(3), 1386>>, <<R(5), 1792>>, <<R(10), 2398>>, <<R(50), 3932>>,
      <<R(500), 6217>>,
      <<R(100), 4615>>, <<R(200), 5303>>, <<R(1000), 6909>>,
      <<R(2048), 7625>>, <<R(8192), 9011>>, <<R(131072), 11784>>,
      <<R(2000000), 14509>> }

log1p(x) == LET e == CHOOSE e \in Log1pTable : e[1] = x IN Frac(e[2], 1000)

Transforms == {"none", "log1p", "cap_10"}

\* what a call that raises yields instead of a value
Raises == <<"raises", "raises">>

\* "none" stands for a spec without "transform"; any other name raises
\* ValueError
transform_value(x, transform) ==
    CASE transform = "none"   -> x
      [] transform = "log1p"  -> log1p(RMax(Zero, x))
      [] transform = "cap_10" -> RMin(R(10), RMax(Zero, x))
      [] OTHER -> Raises

----------------------------------------------------------------------------
(* Scoring standard.                                                       *)

ScaleAbsent == [kind |-> "absent", min |-> Zero, max |-> Zero]
ScaleUnit == [kind |-> "unit", min |-> Zero, max |-> Zero]
ScaleBinary == [kind |-> "binary", min |-> Zero, max |-> Zero]
ScaleRange(mn, mx) == [kind |-> "range", min |-> mn, max |-> mx]

MetricSpec(key, better, weight, transform, scale) ==
    [key |-> key, better |-> better, weight |-> weight,
     transform |-> transform, scale |-> scale]

Category(cat, metrics, fallbacks) ==
    [cat |-> cat, metrics |-> metrics, fallbacks |-> fallbacks]

\* DEFAULT_STANDARD carries no fallback_confidence_multiplier: .get() default
DefaultFallbackMultiplier == Frac(33, 100)

DEFAULT_STANDARD ==
    [name |-> "default-v5",
     fallback_confidence_multiplier |-> DefaultFallbackMultiplier,
     categories |-> <<
       Category("coding",
         << MetricSpec("bigcodebench_instruct", "higher", Frac(75, 100), "none", ScaleRange(R(0), R(100))),
            MetricSpec("bigcodebench_complete", "higher", Frac(25, 100), "none", ScaleRange(R(0), R(100))) >>,
         << MetricSpec("arena_score", "higher", One, "none", ScaleAbsent) >>),
       Category("context_length",
         << MetricSpec("context_length_tokens", "higher", One, "log1p", ScaleRange(R(2048), R(2000000))) >>,
         << >>),
       Category("cost",
         << MetricSpec("cost_usd_per_1m_mixed", "lower", One, "log1p", ScaleRange(Frac(1, 100), R(100))) >>,
         << MetricSpec("cost_is_local_proxy", "higher", One, "none", ScaleBinary) >>),
       Category("creativity",
         << MetricSpec("arena_score", "higher", One, "none", ScaleAbsent) >>,
         << >>),
       Category("factuality",
         << MetricSpec("openllm_gpqa_acc_norm", "higher", One, "none", ScaleUnit) >>,
         << MetricSpec("openllm_truthfulqa_mc2", "higher", One, "none", ScaleUnit),
            MetricSpec("complai_truthful_qa_mc2", "higher", One, "none", ScaleUnit),
            MetricSpec("arena_score", "higher", One, "none", ScaleAbsent) >>),
       Category("function_calling",
         << MetricSpec("bfcl_v3_score", "higher", One, "none", ScaleUnit) >>,
         << MetricSpec("openrouter_tools_supported", "higher", One, "none", ScaleBinary) >>),
       Category("multilinguality",
         << MetricSpec("mmmlu_avg", "higher", One, "none", ScaleUnit) >>,
         << MetricSpec("openllm_mgsm_exact_match", "higher", Frac(6, 10), "none", ScaleUnit),
            MetricSpec("openllm_xnli_acc", "higher", Frac(4, 10), "none", ScaleUnit),
            MetricSpec("hf_language_count", "higher", One, "log1p", ScaleAbsent) >>),
       Category("openness",
         << MetricSpec("complai_openness_mean", "higher", One, "none", ScaleUnit) >>,
         << MetricSpec("openrouter_is_moderated", "lower", One, "none", ScaleBinary) >>),
       Category("reasoning",
         << MetricSpec("openllm_bbh_acc_norm", "higher", Frac(34, 100), "none", ScaleUnit),
            MetricSpec("openllm_math_hard_exact_match", "higher", Frac(33, 100), "none", ScaleUnit),
            MetricSpec("openllm_gpqa_acc_norm", "higher", Frac(33, 100), "none", ScaleUnit) >>,
         << MetricSpec("arena_score", "higher", One, "none", ScaleAbsent) >>),
       Category("safety",
         << MetricSpec("complai_safety_enterprise_mean", "higher", Frac(5, 10), "none", ScaleUnit),
            MetricSpec("complai_eu_ai_act_mean", "higher", Frac(3, 10), "none", ScaleUnit),
            MetricSpec("complai_overall_mean", "higher", Frac(2, 10), "none", ScaleUnit) >>,
         << MetricSpec("openrouter_is_moderated", "higher", One, "none", ScaleBinary) >>),
       Category("speed",
         << MetricSpec("measured_tokens_per_sec", "higher", One, "log1p", ScaleRange(R(1), R(1000))),
            MetricSpec("ollama_measured_tokens_per_sec", "higher", One, "log1p", ScaleRange(R(1), R(200))) >>,
         << MetricSpec("cost_usd_per_1m_mixed", "lower", One, "log1p", ScaleRange(Frac(1, 100), R(100))) >>),
       Category("structured_output",
         << MetricSpec("openrouter_structured_outputs_supported", "higher", One, "none", ScaleBinary) >>,
         << >>)
     >>]

\* A second standard within the documented schema (weight >= 0, multiplier
\* in [0,1]): zero weights, cap_10, a declared range, a cohort-scaled key.
ALT_STANDARD ==
    [name |-> "alt-v1",
     fallback_confidence_multiplier |-> Half,
     categories |-> <<
       Category("quality",
         << MetricSpec("arena_score", "higher", Zero, "none", ScaleAbsent),
            MetricSpec("bfcl_v3_score", "higher", One, "none", ScaleUnit) >>,
         << MetricSpec("openrouter_tools_supported", "lower", R(2), "none", ScaleBinary),
            MetricSpec("context_length_tokens", "higher", One, "log1p", ScaleRange(R(2048), R(2000000))) >>),
       Category("languages",
         << MetricSpec("hf_language_count", "higher", One, "cap_10", ScaleRange(R(0), R(4))) >>,
         << MetricSpec("mmmlu_avg", "higher", Zero, "none", ScaleUnit),
            MetricSpec("cost_usd_per_1m_mixed", "higher", R(3), "none", ScaleUnit) >>)
     >>]

Standards == {DEFAULT_STANDARD, ALT_STANDARD}

\* A standard that names a transform transform_value does not know.
BAD_STANDARD ==
    [name |-> "bad-v1",
     fallback_confidence_multiplier |-> Half,
     categories |-> <<
       Category("languages",
         << MetricSpec("hf_language_count", "higher", One, "sqrt", ScaleAbsent) >>,
         << MetricSpec("mmmlu_avg", "higher", One, "none", ScaleUnit) >>),
       Category("tool_use",
         << MetricSpec("bfcl_v3_score", "higher", One, "none", ScaleUnit) >>,
         << >>)
     >>]

\* A standard that declares hf_language_count in two categories, capped in
\* one and plain in the other.
MIXED_STANDARD ==
    [name |-> "mixed-v1",
     fallback_confidence_multiplier |-> Half,
     categories |-> <<
       Category("languages_capped",
         << MetricSpec("hf_language_count", "higher", One, "cap_10", ScaleRange(R(0), R(20))) >>,
         << >>),
       Category("languages",
         << MetricSpec("hf_language_count", "higher", One, "none", ScaleRange(R(0), R(20))) >>,
         << >>),
       Category("tool_use",
         << MetricSpec("bfcl_v3_score", "higher", One, "none", ScaleUnit) >>,
         << >>)
     >>]

RECURSIVE SeqConcat(_)
SeqConcat(ss) == IF ss = << >> THEN << >> ELSE Head(ss) \o SeqConcat(Tail(ss))

\* cfg.get("metrics", []) + cfg.get("fallbacks", []) over the categories, in
\* dict order
AllSpecs(std) ==
    SeqConcat([i \in 1..Len(std.categories) |->
                  std.categories[i].metrics \o std.categories[i].fallbacks])

Range(s) == {s[i] : i \in 1..Len(s)}

----------------------------------------------------------------------------
(* Normalization and scoring.  rm is the raw_metrics table, a set of rows  *)
(* [model_id, key, value, unit, source_id]; bm is what the benchmark       *)
(* datasets currently yield: [arena: None or <<min, max>>, bcb: a function *)
(* from the bigcodebench keys present to <<min, max>>].                    *)

\* SELECT value FROM raw_metrics WHERE key=?
get_metric_values(rm, key) == {r \in rm : r.key = key}

fixed_scale_params(metric_spec) ==
    LET scale == metric_spec.scale
        transform == metric_spec.transform
    IN  IF scale.kind \in {"binary", "unit"}
        THEN IF transform # "none"
             THEN <<transform_value(Zero, transform), transform_value(One, transform)>>
             ELSE <<Zero, One>>
        ELSE IF scale.kind = "range"
        THEN IF transform # "none"
             THEN <<transform_value(scale.min, transform), transform_value(scale.max, transform)>>
             ELSE <<scale.min, scale.max>>
        ELSE None

arena_elo_min_max(bm) == bm.arena

bigcodebench_score_min_max(bm) == bm.bcb

benchmark_scale_override(bm, metric_spec) ==
    LET key == metric_spec.key
        transform == metric_spec.transform
    IN  IF key = "arena_score"
        THEN LET mm == arena_elo_min_max(bm)
             IN  IF mm = None THEN None
                 ELSE IF transform # "none"
                 THEN <<transform_value(mm[1], transform), transform_value(mm[2], transform)>>
                 ELSE mm
        ELSE IF key \in {"bigcodebench_instruct", "bigcodebench_complete"}
        THEN LET mm == bigcodebench_score_min_max(bm)
             IN  IF key \notin DOMAIN mm THEN None
                 ELSE IF transform # "none"
                 THEN <<transform_value(mm[key][1], transform), transform_value(mm[key][2], transform)>>
                 ELSE mm[key]
        ELSE None

\* if abs(mx - mn) < 1e-12: return None; return (mn, mx)
span_or_none(mn, mx) == IF NearZero(RAbs(RSub(mx, mn))) THEN None ELSE <<mn, mx>>

\* vals: the rows SELECTed for the key; fewer than two give None
cohort_of(vals, transform) ==
    IF Cardinality(vals) < 2 THEN None
    ELSE span_or_none(RSetMin({transform_value(r.value, transform) : r \in vals}),
                      RSetMax({transform_value(r.value, transform) : r \in vals}))

cohort_params(rm, metric_spec) ==
    cohort_of(get_metric_values(rm, metric_spec.key), metric_spec.transform)

\* the declared scale consulted before the benchmark-derived one
compute_norm_params_fixed_first(rm, bm, metric_spec) ==
    IF metric_spec.key # "cost_usd_per_1m_mixed" /\ fixed_scale_params(metric_spec) # None
    THEN fixed_scale_params(metric_spec)
    ELSE IF metric_spec.key # "cost_usd_per_1m_mixed"
            /\ benchmark_scale_override(bm, metric_spec) # None
    THEN benchmark_scale_override(bm, metric_spec)
    ELSE cohort_params(rm, metric_spec)

\* cost treated like every other key
compute_norm_params_cost_like_others(rm, bm, metric_spec) ==
    IF benchmark_scale_override(bm, metric_spec) # None
    THEN benchmark_scale_override(bm, metric_spec)
    ELSE IF fixed_scale_params(metric_spec) # None
    THEN fixed_scale_params(metric_spec)
    ELSE cohort_params(rm, metric_spec)

compute_norm_params(rm, bm, metric_spec) ==
    IF metric_spec.key # "cost_usd_per_1m_mixed"
       /\ benchmark_scale_override(bm, metric_spec) # None
    THEN benchmark_scale_override(bm, metric_spec)
    ELSE IF metric_spec.key # "cost_usd_per_1m_mixed" /\ fixed_scale_params(metric_spec) # None
    THEN fixed_scale_params(metric_spec)
    ELSE cohort_params(rm, metric_spec)

\* better = "lower" not inverted
normalize_value_not_inverted(x, metric_spec, params) ==
    IF NearZero(RAbs(RSub(params[2], params[1]))) THEN Half
    ELSE clamp01(RDiv(RSub(transform_value(x, metric_spec.transform), params[1]),
                      RSub(params[2], params[1])))

normalize_value(x, metric_spec, params) ==
    LET mn == params[1]
        mx == params[2]
        tx == transform_value(x, metric_spec.transform)
    IN  IF NearZero(RAbs(RSub(mx, mn))) THEN Half
        ELSE LET n == clamp01(RDiv(RSub(tx, mn), RSub(mx, mn)))
             IN  clamp01(IF metric_spec.better = "lower" THEN RSub(One, n) ELSE n)

\* SELECT value FROM raw_metrics WHERE model_id=? AND key=? ... fetchone()
model_metric(rm, model_id, key) ==
    IF \E r \in rm : r.model_id = model_id /\ r.key = key
    THEN (CHOOSE r \in rm : r.model_id = model_id /\ r.key = key).value
    ELSE None

RECURSIVE SumWeights(_)
SumWeights(specs) ==
    IF specs = << >> THEN Zero ELSE RAdd(Head(specs).weight, SumWeights(Tail(specs)))

\* accum += norm * w; used_w += w; used.append({...})
add_used(acc, spec, raw, norm, params_used) ==
    [accum |-> RAdd(acc.accum, RMul(norm, spec.weight)),
     used_w |-> RAdd(acc.used_w, spec.weight),
     used |-> Append(acc.used,
                [key |-> spec.key, raw |-> raw, norm |-> norm,
                 weight |-> spec.weight, norm_params |-> params_used])]

\* one iteration of the loop of compute_from_specs; raw is model_metric()
compute_step(acc, spec, raw, norm_params) ==
    IF raw = None THEN acc
    ELSE IF spec.key \notin DOMAIN norm_params
    THEN add_used(acc, spec, raw, Half, None)
    ELSE add_used(acc, spec, raw, normalize_value(raw, spec, norm_params[spec.key]),
                  norm_params[spec.key])

RECURSIVE compute_loop(_, _, _, _, _)
compute_loop(rm, model_id, specs, norm_params, acc) ==
    IF specs = << >> THEN acc
    ELSE compute_loop(rm, model_id, Tail(specs), norm_params,
            compute_step(acc, Head(specs), model_metric(rm, model_id, Head(specs).key),
                         norm_params))

\* total_w = sum(...) or 1.0
total_weight(sum_w) == IF sum_w = Zero THEN One ELSE sum_w

\* the end of compute_from_specs: r is what the loop accumulated
specs_result(total_w, r) ==
    IF RLe(r.used_w, Zero)
    THEN [score |-> None, conf |-> Zero, used |-> << >>]
    ELSE [score |-> RDiv(r.accum, r.used_w),
          conf |-> clamp01(RDiv(r.used_w, total_w)),
          used |-> r.used]

compute_from_specs(rm, model_id, specs, norm_params) ==
    specs_result(total_weight(SumWeights(specs)),
                 compute_loop(rm, model_id, specs, norm_params,
                              [accum |-> Zero, used_w |-> Zero, used |-> << >>]))

\* the multiplier left out
fallback_confidence_unscaled(conf, std) == conf

\* if used_fallback and conf > 0: conf = clamp01(conf * multiplier)
fallback_confidence(conf, std) ==
    IF RLt(Zero, conf) THEN clamp01(RMul(conf, std.fallback_confidence_multiplier))
    ELSE conf

\* a missing category scored 0.0
no_metrics_default_zero(used_fallback) ==
    [score |-> clamp01(Zero), confidence |-> clamp01(Zero),
     used |-> << >>, used_fallback |-> used_fallback]

\* if score is None: score = 0.5; conf = 0.0; details = {"used": [], ...}
no_metrics_default(used_fallback) ==
    [score |-> clamp01(Half), confidence |-> clamp01(Zero),
     used |-> << >>, used_fallback |-> used_fallback]

\* out[cat] = (clamp01(score), clamp01(conf), details)
category_out(score, conf, used, used_fallback) ==
    IF score = None THEN no_metrics_default(used_fallback)
    ELSE [score |-> clamp01(score), confidence |-> clamp01(conf),
          used |-> used, used_fallback |-> used_fallback]

\* p: compute_from_specs(metrics); q: compute_from_specs(fallbacks), which
\* the code evaluates only when p's score is None
choose_result(p, q, std) ==
    IF p.score # None THEN category_out(p.score, p.conf, p.used, FALSE)
    ELSE category_out(q.score, fallback_confidence(q.conf, std), q.used, TRUE)

\* one category of score_model_category: (score, confidence, details)
score_category(rm, model_id, std, cfg, norm_params) ==
    choose_result(compute_from_specs(rm, model_id, cfg.metrics, norm_params),
                  compute_from_specs(rm, model_id, cfg.fallbacks, norm_params),
                  std)

score_model_category(rm, model_id, std, norm_params) ==
    [i \in 1..Len(std.categories) |->
        score_category(rm, model_id, std, std.categories[i], norm_params)]

----------------------------------------------------------------------------
(* The store.  db is the record of the tables written during ingestion:    *)
(* models, sources (a sequence: the row id is the index), raw_metrics,     *)
(* links.                                                                  *)

\* A store is [models, sources, raw_metrics, links]: the tables as the
\* connection sees them, with committed: the tables as of the last
\* conn.commit(), and raised: an exception is on its way out of the call.
Tables(db) ==
    [models |-> db.models, sources |-> db.sources, raw_metrics |-> db.raw_metrics,
     links |-> db.links]

commit(db) == [db EXCEPT !.committed = Tables(db)]

raise(db) == [db EXCEPT !.raised = TRUE]

\* the rows written on the connection since its last commit: what the end
\* of the process without a commit takes away
uncommitted(db) ==
    [models |-> db.models \ db.committed.models,
     raw_metrics |-> db.raw_metrics \ db.committed.raw_metrics,
     links |-> db.links \ db.committed.links]

upsert_source(db, name) == commit([db EXCEPT !.sources = Append(@, name)])
last_insert_rowid(db) == Len(db.sources)

\* the bound value stored as it is, NULL included
COALESCE_overwrite(new, old) == new

COALESCE(new, old) == IF new # NULL THEN new ELSE old

model_row_id(models, provider, provider_id) ==
    (CHOOSE m \in models : m.provider = provider /\ m.provider_id = provider_id).id

\* a plain INSERT into a table without UNIQUE(provider, provider_id)
upsert_model_insert(db, display_name, provider, provider_id, openrouter_id, hf_repo_id) ==
    [db EXCEPT !.models = @ \cup
        {[id |-> Cardinality(db.models) + 1, display_name |-> display_name,
          provider |-> provider, provider_id |-> provider_id,
          openrouter_id |-> openrouter_id, hf_repo_id |-> hf_repo_id]}]

upsert_model(db, display_name, provider, provider_id, openrouter_id, hf_repo_id) ==
    commit(
      IF \E m \in db.models : m.provider = provider /\ m.provider_id = provider_id
      THEN LET mid == model_row_id(db.models, provider, provider_id)
           IN  [db EXCEPT !.models =
                  {IF m.id = mid
                   THEN [m EXCEPT !.display_name = display_name,
                                  !.openrouter_id = COALESCE(openrouter_id, @),
                                  !.hf_repo_id = COALESCE(hf_repo_id, @)]
                   ELSE m : m \in @}]
      ELSE [db EXCEPT !.models = @ \cup
              {[id |-> Cardinality(db.models) + 1, display_name |-> display_name,
                provider |-> provider, provider_id |-> provider_id,
                openrouter_id |-> openrouter_id, hf_repo_id |-> hf_repo_id]}])

set_model_hf_repo_id(db, model_id, hf_repo_id) ==
    commit([db EXCEPT !.models =
        {IF m.id = model_id THEN [m EXCEPT !.hf_repo_id = hf_repo_id] ELSE m : m \in @}])

\* INSERT OR IGNORE on the primary key (model_id, kind, url)
upsert_link(db, model_id, kind, url, source_id) ==
    IF \E l \in db.links : l.model_id = model_id /\ l.kind = kind /\ l.url = url
    THEN db
    ELSE [db EXCEPT !.links = @ \cup
            {[model_id |-> model_id, kind |-> kind, url |-> url, source_id |-> source_id]}]

\* a plain INSERT into a table without the UNIQUE(model_id, key) constraint
upsert_metric_insert(db, model_id, key, value, unit, source_id) ==
    [db EXCEPT !.raw_metrics = @ \cup
        {[model_id |-> model_id, key |-> key, value |-> value,
          unit |-> unit, source_id |-> source_id]}]

\* INSERT ... ON CONFLICT(model_id, key) DO UPDATE
upsert_metric(db, model_id, key, value, unit, source_id) ==
    [db EXCEPT !.raw_metrics =
        {r \in @ : ~(r.model_id = model_id /\ r.key = key)} \cup
        {[model_id |-> model_id, key |-> key, value |-> value,
          unit |-> unit, source_id |-> source_id]}]

\* for key, (val, unit) in metrics.items(): upsert_metric(...)
RECURSIVE upsert_metrics(_, _, _, _)
upsert_metrics(db, model_id, metrics, source_id) ==
    IF metrics = {} THEN db
    ELSE LET m == CHOOSE m \in metrics : TRUE
         IN  upsert_metrics(upsert_metric(db, model_id, m.key, m.val, m.unit, source_id),
                            model_id, metrics \ {m}, source_id)

Metric(key, val, unit) == [key |-> key, val |-> val, unit |-> unit]

\* if url: upsert_link(conn, model_id, kind, url, sid)
link_if(db, model_id, link_kind, link_url, sid) ==
    IF link_kind = NULL THEN db ELSE upsert_link(db, model_id, link_kind, link_url, sid)

\* d1: the store after the block's upsert_source
store_under(d1, model_id, link_kind, link_url, metrics) ==
    upsert_metrics(link_if(d1, model_id, link_kind, link_url, last_insert_rowid(d1)),
                   model_id, metrics, last_insert_rowid(d1))

\* the block shared by the extractors: one Source row, its Link row, then
\* one RawMetric per produced key
store_extraction(db, model_id, source_name, link_kind, link_url, metrics) ==
    store_under(upsert_source(db, source_name), model_id, link_kind, link_url, metrics)

----------------------------------------------------------------------------
(* Metric extractors.                                                      *)

Million == R(1000000)

extract_openrouter_metrics(obj) ==
    LET priced == obj.prompt # None /\ obj.completion # None
        mixed_per_token == RAdd(RMul(Half, obj.prompt), RMul(Half, obj.completion))
    IN  (IF priced
         THEN {Metric("cost_usd_per_1m_mixed", RMul(mixed_per_token, Million), "USD/1M tokens"),
               Metric("openrouter_prompt_usd_per_token", obj.prompt, "USD/token"),
               Metric("openrouter_completion_usd_per_token", obj.completion, "USD/token")}
         ELSE {})
        \cup (IF obj.request # None
              THEN {Metric("openrouter_request_usd", obj.request, "USD/request")} ELSE {})
        \cup {Metric("openrouter_tools_supported",
                     IF "tools" \in obj.supported_parameters THEN One ELSE Zero, "bool"),
              Metric("openrouter_structured_outputs_supported",
                     IF "structured_outputs" \in obj.supported_parameters THEN One ELSE Zero, "bool"),
              Metric("openrouter_is_moderated", IF obj.is_moderated THEN One ELSE Zero, "bool")}
        \cup (IF obj.context_length # None
              THEN {Metric("context_length_tokens", obj.context_length, "tokens")} ELSE {})

extract_arena_metrics(arena_row) ==
    (IF arena_row.score # None THEN {Metric("arena_score", arena_row.score, "Elo-ish")} ELSE {})
    \cup (IF arena_row.votes # None THEN {Metric("arena_votes", arena_row.votes, "count")} ELSE {})

RECURSIVE SumLeaves(_)
SumLeaves(leaves) ==
    IF leaves = {} THEN Zero
    ELSE LET l == CHOOSE l \in leaves : TRUE IN RAdd(l.v, SumLeaves(leaves \ {l}))

Mean(leaves) == RDiv(SumLeaves(leaves), R(Cardinality(leaves)))

\* entry.results: leaves [k, v, safety, openness, eu]; the three flags say
\* whether k contains one of COMPLAI_SAFETY_KEY_HINTS / _OPENNESS_ / _EU_AI_ACT_
complai_metrics_for_any(entry) ==
    IF entry = None THEN {}
    ELSE LET numeric == {l \in entry[1].results : l.v # None}
             vals_safety == {l \in numeric : l.safety}
             vals_openness == {l \in numeric : l.openness}
             vals_eu == {l \in numeric : l.eu}
         IN  {Metric(l.k, l.v, "0..1") : l \in numeric}
             \cup (IF numeric # {}
                   THEN {Metric("complai_overall_mean", Mean(numeric), "0..1")} ELSE {})
             \cup (IF vals_safety # {}
                   THEN {Metric("complai_safety_enterprise_mean", Mean(vals_safety), "0..1")} ELSE {})
             \cup (IF vals_openness # {}
                   THEN {Metric("complai_openness_mean", Mean(vals_openness), "0..1")} ELSE {})
             \cup (IF vals_eu # {}
                   THEN {Metric("complai_eu_ai_act_mean", Mean(vals_eu), "0..1")} ELSE {})

----------------------------------------------------------------------------
(* evaluate_and_store_metrics.  ext holds what the external calls of this  *)
(* run return: hf_meta and openllm (per HF repo), search_best (the best   *)
(* match of the HF search), catalog_obj, arena_row, bigcodebench, mmmlu,   *)
(* bfcl, complai, speed_openrouter, speed_ollama.                          *)

Truthy(id) == id # NULL

fetch_hf_model_metadata(ext, hf_repo_id) ==
    IF hf_repo_id \in DOMAIN ext.hf_meta THEN ext.hf_meta[hf_repo_id] ELSE None

fetch_openllm_results_json(ext, hf_repo_id) ==
    IF hf_repo_id \in DOMAIN ext.openllm THEN ext.openllm[hf_repo_id] ELSE None

\* similarities are in hundredths: 8800 is 88.0
OpenLlmThreshold == 8800
MetadataThreshold == 9200

\* not best_id or best_score < 88.0
below(ext, threshold) == ext.search_best = NULL \/ ext.search_score < threshold

\* the best match of the HF search, if it reaches 88 and Open LLM results
\* exist for it
best_hf_repo_for_openllm(ext) ==
    IF ~below(ext, OpenLlmThreshold)
       /\ fetch_openllm_results_json(ext, ext.search_best) # None
    THEN ext.search_best ELSE NULL

\* the best match of the HF search, if it reaches 92 and the Hub has its
\* metadata
best_hf_repo_for_metadata(ext) ==
    IF ~below(ext, MetadataThreshold)
       /\ fetch_hf_model_metadata(ext, ext.search_best) # None
    THEN ext.search_best ELSE NULL

\* fetch_openllm_results_json raises out of _best_hf_repo_for_openllm when
\* the download of the results file of the best match fails
autolink(db, model_id, cand, ext) ==
    IF ~below(ext, OpenLlmThreshold)
       /\ fetch_openllm_results_json(ext, ext.search_best) = Raises
    THEN [hf_repo_id |-> NULL, db |-> raise(db)]
    ELSE IF best_hf_repo_for_openllm(ext) # NULL
    THEN [hf_repo_id |-> best_hf_repo_for_openllm(ext),
          db |-> store_extraction(
                    set_model_hf_repo_id(db, model_id, best_hf_repo_for_openllm(ext)),
                    model_id, "hf_autolink_for_openllm", "hf_model_autolink",
                    best_hf_repo_for_openllm(ext), {})]
    ELSE IF best_hf_repo_for_metadata(ext) # NULL
    THEN [hf_repo_id |-> best_hf_repo_for_metadata(ext),
          db |-> store_extraction(
                    set_model_hf_repo_id(db, model_id, best_hf_repo_for_metadata(ext)),
                    model_id, "hf_autolink_metadata", "hf_model_autolink",
                    best_hf_repo_for_metadata(ext), {})]
    ELSE [hf_repo_id |-> NULL, db |-> db]

\* HF invalidation: a repo id copied from the OpenRouter id that the Hub
\* does not know is cleared
hf_invalid(cand, ext) ==
    /\ Truthy(cand.hf_repo_id) /\ Truthy(cand.openrouter_id)
    /\ cand.hf_repo_id = cand.openrouter_id
    /\ fetch_hf_model_metadata(ext, cand.hf_repo_id) = None

invalidate_hf(db, model_id, cand, ext) ==
    IF hf_invalid(cand, ext)
    THEN [hf_repo_id |-> NULL, db |-> set_model_hf_repo_id(db, model_id, NULL)]
    ELSE [hf_repo_id |-> cand.hf_repo_id, db |-> db]

\* HF autolink; st is [hf_repo_id, db] after the invalidation
autolink_step(st, model_id, cand, ext) ==
    IF ~Truthy(st.hf_repo_id) /\ Truthy(cand.openrouter_id) /\ cand.provider = "openrouter"
    THEN autolink(st.db, model_id, cand, ext)
    ELSE st

\* openrouter_obj = cand.extra if cand.source == "openrouter" else the
\* catalog entry of openrouter_id
openrouter_obj_of(cand, ext) ==
    IF cand.source = "openrouter" THEN cand.extra
    ELSE IF Truthy(cand.openrouter_id) THEN ext.catalog_obj
    ELSE None

\* the first block after the autolink: nothing from here on runs when the
\* autolink raised
store_openrouter(db, model_id, cand, ext) ==
    IF db.raised THEN db
    ELSE IF openrouter_obj_of(cand, ext) # None
    THEN store_extraction(db, model_id, "openrouter_models_api", "openrouter_model",
                          cand.openrouter_id,
                          extract_openrouter_metrics(openrouter_obj_of(cand, ext)[1]))
    ELSE db

store_ollama(db, model_id, cand) ==
    IF db.raised THEN db
    ELSE IF cand.provider = "ollama"
    THEN store_extraction(db, model_id, "ollama_tags", "ollama_model", cand.provider_id,
                          {Metric("cost_is_local_proxy", One, "bool")})
    ELSE db

store_arena(db, model_id, ext) ==
    IF db.raised THEN db
    ELSE IF ext.arena_row # None
    THEN store_extraction(db, model_id, "hf_chatbot_arena_elo", "arena_dataset",
                          "arena", extract_arena_metrics(ext.arena_row[1]))
    ELSE db

store_bigcodebench(db, model_id, ext) ==
    IF db.raised THEN db
    ELSE IF ext.bigcodebench # {}
    THEN store_extraction(db, model_id, "hf_bigcodebench_results", "bigcodebench_dataset",
                          "bigcodebench", ext.bigcodebench)
    ELSE db

store_mmmlu(db, model_id, ext) ==
    IF db.raised THEN db
    ELSE IF ext.mmmlu # {}
    THEN store_extraction(db, model_id, "openai_mmmlu", "mmmlu_results", "mmmlu", ext.mmmlu)
    ELSE db

store_bfcl(db, model_id, ext) ==
    IF db.raised THEN db
    ELSE IF ext.bfcl # {}
    THEN store_extraction(db, model_id, "bfcl_results", "bfcl_results", "bfcl", ext.bfcl)
    ELSE db

store_hf_metadata(db, model_id, hf_repo_id, ext) ==
    IF db.raised THEN db
    ELSE IF Truthy(hf_repo_id) /\ fetch_hf_model_metadata(ext, hf_repo_id) # None
    THEN store_extraction(db, model_id, "hf_model_metadata", "hf_model", hf_repo_id,
                          {Metric("hf_language_count",
                                  fetch_hf_model_metadata(ext, hf_repo_id)[1].languages,
                                  "count")})
    ELSE db

store_openllm(db, model_id, hf_repo_id, ext) ==
    IF db.raised THEN db
    ELSE IF Truthy(hf_repo_id) /\ fetch_openllm_results_json(ext, hf_repo_id) = Raises
    THEN raise(db)
    ELSE IF Truthy(hf_repo_id) /\ fetch_openllm_results_json(ext, hf_repo_id) # None
    THEN store_extraction(db, model_id, "hf_openllm_results", "openllm_results",
                          hf_repo_id, fetch_openllm_results_json(ext, hf_repo_id)[1])
    ELSE db

\* c1: the store after upsert_source("complai_space_results")
complai_under(c1, model_id, entry, metrics) ==
    upsert_metrics(
        IF entry.model_report # NULL
        THEN upsert_link(c1, model_id, "complai_report", entry.model_report,
                         last_insert_rowid(c1))
        ELSE c1,
        model_id, metrics, last_insert_rowid(c1))

\* load_complai_index raises when the listing of the space fails
store_complai(db, model_id, ext) ==
    IF db.raised THEN db
    ELSE IF ext.complai = Raises THEN raise(db)
    ELSE IF complai_metrics_for_any(ext.complai) # {}
    THEN complai_under(upsert_source(db, "complai_space_results"), model_id,
                       ext.complai[1], complai_metrics_for_any(ext.complai))
    ELSE db

store_speed_openrouter(db, model_id, cand, measure_speed, ext) ==
    IF db.raised THEN db
    ELSE IF measure_speed /\ Truthy(cand.openrouter_id) /\ ext.speed_openrouter # None
    THEN store_extraction(db, model_id, "measured_speed_openrouter", NULL, NULL,
            {Metric("measured_tokens_per_sec", ext.speed_openrouter, "tokens/sec")})
    ELSE db

store_speed_ollama(db, model_id, cand, measure_speed, ext) ==
    IF db.raised THEN db
    ELSE IF measure_speed /\ cand.provider = "ollama" /\ ext.speed_ollama # None
    THEN store_extraction(db, model_id, "measured_speed_ollama", NULL, NULL,
            {Metric("ollama_measured_tokens_per_sec", ext.speed_ollama, "tokens/sec")})
    ELSE db

\* the extractor blocks in the order of the code; st is [hf_repo_id, db]
\* after the autolink
run_extractors(st, model_id, cand, measure_speed, ext) ==
    store_speed_ollama(
      store_speed_openrouter(
        store_complai(
          store_openllm(
            store_hf_metadata(
              store_bfcl(
                store_mmmlu(
                  store_bigcodebench(
                    store_arena(
                      store_ollama(
                        store_openrouter(st.db, model_id, cand, ext),
                        model_id, cand),
                      model_id, ext),
                    model_id, ext),
                  model_id, ext),
                model_id, ext),
              model_id, st.hf_repo_id, ext),
            model_id, st.hf_repo_id, ext),
          model_id, ext),
        model_id, cand, measure_speed, ext),
      model_id, cand, measure_speed, ext)

\* d1: the store after upsert_model; model_id: the id it returned
\* conn.commit(); return model_id, unless an exception left the call
finish(db, model_id) ==
    [db |-> IF db.raised THEN db ELSE commit(db), model_id |-> model_id,
     raised |-> db.raised]

\* d1: the store after upsert_model; model_id: the id it returned
evaluate_model(d1, model_id, cand, measure_speed, ext) ==
    finish(run_extractors(
                autolink_step(invalidate_hf(d1, model_id, cand, ext), model_id, cand, ext),
                model_id, cand, measure_speed, ext),
           model_id)

\* d1: the store after upsert_model
evaluate_from(d1, cand, measure_speed, ext) ==
    evaluate_model(d1, model_row_id(d1.models, cand.provider, cand.provider_id),
                   cand, measure_speed, ext)

evaluate_and_store_metrics(db0, cand, measure_speed, ext) ==
    evaluate_from(upsert_model(db0, cand.name, cand.provider, cand.provider_id,
                               cand.openrouter_id, cand.hf_repo_id),
                  cand, measure_speed, ext)

----------------------------------------------------------------------------
(* rescore_all.                                                            *)

\* A dict handed to json.dumps is [keys, fields]: its top-level keys in
\* insertion order and the value of each key.  The dict literal of a
\* standard; DEFAULT_STANDARD carries no "fallback_confidence_multiplier".
StandardKeys(std) ==
    IF std = DEFAULT_STANDARD THEN <<"name", "categories">>
    ELSE <<"name", "fallback_confidence_multiplier", "categories">>

as_dict(std) == [keys |-> StandardKeys(std), fields |-> std]

\* the order of the key strings
KeyRank(k) ==
    CASE k = "categories" -> 1
      [] k = "fallback_confidence_multiplier" -> 2
      [] k = "name" -> 3

RECURSIVE insert_key(_, _)
insert_key(sorted_keys, k) ==
    IF sorted_keys = << >> THEN <<k>>
    ELSE IF KeyRank(k) <= KeyRank(Head(sorted_keys)) THEN <<k>> \o sorted_keys
    ELSE <<Head(sorted_keys)>> \o insert_key(Tail(sorted_keys), k)

RECURSIVE sorted(_)
sorted(keys) == IF keys = << >> THEN << >> ELSE insert_key(sorted(Tail(keys)), Head(keys))

\* the text json.dumps writes: the keys in insertion order, or sorted
json_dumps(obj, sort_keys) ==
    [keys |-> IF sort_keys THEN sorted(obj.keys) ELSE obj.keys, fields |-> obj.fields]

\* the digest of the text as json.dumps writes it by default
sha256_json_unsorted(obj) == <<"sha256", json_dumps(obj, FALSE)>>

\* the digest of the canonical text; sha256 is taken to be collision-free
sha256_json(obj) == <<"sha256", json_dumps(obj, TRUE)>>

\* standards: the table; standard: the dict
get_or_create_standard(standards, standard) ==
    IF \E s \in standards : s.config_hash = sha256_json(standard)
    THEN standards
    ELSE standards \cup {[id |-> Cardinality(standards) + 1,
                          name |-> standard.fields.name,
                          config_hash |-> sha256_json(standard),
                          config_json |-> json_dumps(standard, FALSE)]}

\* the id get_or_create_standard returns
standard_row_id(standards, standard) ==
    (CHOOSE s \in standards : s.config_hash = sha256_json(standard)).id

\* metric_specs_by_key[spec["key"]] = spec over the specs in order: the
\* last spec declared for a key stays
RECURSIVE specs_by_key_loop(_, _)
specs_by_key_loop(all, acc) ==
    IF all = << >> THEN acc
    ELSE specs_by_key_loop(Tail(all), (Head(all).key :> Head(all)) @@ acc)

metric_specs_by_key(std) == specs_by_key_loop(AllSpecs(std), << >>)

\* if params is not None: norm_params[key] = params
keep_params(acc, key, params) == IF params # None THEN (key :> params) @@ acc ELSE acc

pick(keys) == CHOOSE k \in keys : TRUE

\* for key in needed_keys: params = compute_norm_params(conn, spec)
RECURSIVE norm_params_loop(_, _, _, _, _)
norm_params_loop(keys, by_key, rm, bm, acc) ==
    IF keys = {} THEN acc
    ELSE norm_params_loop(keys \ {pick(keys)}, by_key, rm, bm,
            keep_params(acc, pick(keys), compute_norm_params(rm, bm, by_key[pick(keys)])))

norm_params_from(by_key, rm, bm) == norm_params_loop(DOMAIN by_key, by_key, rm, bm, << >>)

norm_params_for(rm, bm, std) == norm_params_from(metric_specs_by_key(std), rm, bm)

score_row(mid, standard_id, cat, c, at) ==
    [model_id |-> mid, standard_id |-> standard_id, category |-> cat,
     score |-> c.score, confidence |-> c.confidence,
     used |-> c.used, used_fallback |-> c.used_fallback, computed_at |-> at]

\* no row for a category in which the model has no metric
score_rows_scored_only(rm, std, standard_id, mid, norm_params, at) ==
    {score_row(mid, standard_id, std.categories[i].cat,
               score_model_category(rm, mid, std, norm_params)[i], at) :
        i \in {j \in 1..Len(std.categories) :
                  score_model_category(rm, mid, std, norm_params)[j].used # << >>}}

score_rows(rm, std, standard_id, mid, norm_params, at) ==
    {score_row(mid, standard_id, std.categories[i].cat,
               score_model_category(rm, mid, std, norm_params)[i], at) :
        i \in 1..Len(std.categories)}

\* a plain INSERT into a table without the (model_id, standard_id,
\* category) key
upsert_scores_insert(scs, rows) == scs \cup rows

\* INSERT INTO scores ... ON CONFLICT(model_id, standard_id, category) DO
\* UPDATE, for every row of the pass (the rows of a pass have distinct keys)
upsert_scores(scs, rows) ==
    {r \in scs : ~(\E n \in rows : /\ n.model_id = r.model_id
                                   /\ n.standard_id = r.standard_id
                                   /\ n.category = r.category)} \cup rows

\* the loop over the models, with the pass's standard_id and norm_params:
\* the rows it upserts
rescore_models(mdls, rm, std, standard_id, norm_params, at) ==
    UNION {score_rows(rm, std, standard_id, m.id, norm_params, at) : m \in mdls}

\* rows: the rows of the pass, one upsert and one updated += 1 each
rescore_write(stds1, scs, rows) ==
    [standards |-> stds1, scores |-> upsert_scores(scs, rows),
     updated |-> Cardinality(rows), raised |-> FALSE]

\* stds1: the standards table after get_or_create_standard
rescore_under(mdls, rm, stds1, scs, bm, std, at) ==
    rescore_write(stds1, scs,
                  rescore_models(mdls, rm, std, standard_row_id(stds1, as_dict(std)),
                                 norm_params_for(rm, bm, std), at))

\* transform_value raises on the transform of the spec
unknown_transform(spec) == spec.transform \notin Transforms

\* a benchmark-derived scale exists for the key
has_benchmark_scale(bm, key) ==
    \/ key = "arena_score" /\ arena_elo_min_max(bm) # None
    \/ key \in {"bigcodebench_instruct", "bigcodebench_complete"}
          /\ key \in DOMAIN bigcodebench_score_min_max(bm)

\* compute_norm_params calls transform_value: on the ends of a benchmark or
\* declared scale when the spec has a transform, on the cohort's values
\* when there are at least two
applies_transform(rm, bm, spec) ==
    IF spec.key # "cost_usd_per_1m_mixed" /\ has_benchmark_scale(bm, spec.key)
    THEN spec.transform # "none"
    ELSE IF spec.key # "cost_usd_per_1m_mixed" /\ spec.scale.kind \in {"binary", "unit", "range"}
    THEN spec.transform # "none"
    ELSE Cardinality(get_metric_values(rm, spec.key)) >= 2

\* the loop over needed_keys raises
norm_params_raise(by_key, rm, bm) ==
    \E key \in DOMAIN by_key :
        unknown_transform(by_key[key]) /\ applies_transform(rm, bm, by_key[key])

\* compute_from_specs raises: normalize_value is called for a spec whose
\* key the model has and norm_params holds
specs_raise(rm, model_id, specs, norm_params) ==
    \E i \in DOMAIN specs :
        /\ unknown_transform(specs[i])
        /\ model_metric(rm, model_id, specs[i].key) # None
        /\ specs[i].key \in DOMAIN norm_params

\* the fallbacks are computed only when the primaries gave no score
category_raises(rm, model_id, cfg, norm_params) ==
    IF specs_raise(rm, model_id, cfg.metrics, norm_params) THEN TRUE
    ELSE /\ compute_from_specs(rm, model_id, cfg.metrics, norm_params).score = None
         /\ specs_raise(rm, model_id, cfg.fallbacks, norm_params)

\* norm_params: the result of the loop over needed_keys, which did not raise
scoring_raises(mdls, rm, std, norm_params) ==
    \E m \in mdls, i \in DOMAIN std.categories :
        category_raises(rm, m.id, std.categories[i], norm_params)

\* rescore_all raises ValueError
rescore_raises(mdls, rm, bm, std) ==
    IF \A i \in DOMAIN AllSpecs(std) : ~unknown_transform(AllSpecs(std)[i]) THEN FALSE
    ELSE IF norm_params_raise(metric_specs_by_key(std), rm, bm) THEN TRUE
    ELSE scoring_raises(mdls, rm, std, norm_params_for(rm, bm, std))

\* returns the standards and scores tables after the pass, and the count.
\* get_or_create_standard has committed its row when transform_value
\* raises; the scores written before the raise are never committed.
rescore_all(mdls, rm, stds, scs, bm, std, at) ==
    IF rescore_raises(mdls, rm, bm, std)
    THEN [standards |-> get_or_create_standard(stds, as_dict(std)), scores |-> scs,
          updated |-> 0, raised |-> TRUE]
    ELSE rescore_under(mdls, rm, get_or_create_standard(stds, as_dict(std)), scs, bm, std, at)

----------------------------------------------------------------------------
(* ingest_bfcl_results.                                                    *)

\* norm_name on the names of the model
NormTable ==
    { <<"GPT-X", "gpt x">>, <<"gpt-x", "gpt x">>, <<"Mistral-S", "mistral s">>,
      <<"llama3:8b", "8b">>, <<"meta/llama-3", "meta llama 3">>,
      <<"new-model", "new model">>, <<"Qwen-M", "qwen m">>,
      <<"gpt x", "gpt x">>, <<"", "">> }

norm_name(s) == (CHOOSE e \in NormTable : e[1] = s)[2]

\* similarity 0..100 of the matcher library on the names of the model
fuzzy_score(a, b) == IF a = b THEN 100 ELSE 0

match_score(a, b) ==
    LET s1 == fuzzy_score(a, b)
        s2 == fuzzy_score(norm_name(a), norm_name(b))
    IN  IF s1 > s2 THEN s1 ELSE s2

\* the best similarity over the rows
best_match_score(mdls, name) ==
    CHOOSE s \in {match_score(name, m.display_name) : m \in mdls} :
        \A m \in mdls : match_score(name, m.display_name) <= s

first_by_id(ms) == (CHOOSE m \in ms : \A o \in ms : m.id <= o.id).id

\* rows scanned in id order, a later row wins only with a strictly higher
\* score; a match needs >= 70
best_model(mdls, name, best_s) ==
    IF best_s < 70 THEN 0
    ELSE first_by_id({m \in mdls : match_score(name, m.display_name) = best_s})

\* the fuzzy branch of resolve_model_id; 0 stands for None
resolve_model_id(mdls, name) ==
    IF mdls = {} THEN 0 ELSE best_model(mdls, name, best_match_score(mdls, name))

\* a value of a file that float() rejects
NotANumber == <<"abc", "abc", "abc">>

\* bool(v) of a JSON value: None and zero are false
truthy(v) == v # None /\ v # Zero

\* .json: v = it.get("score"); if v is None: v = it.get("bfcl_v3_score") or
\* it.get("bfcl_score")
json_score(it) ==
    IF it.score # None THEN it.score
    ELSE IF truthy(it.bfcl_v3_score) THEN it.bfcl_v3_score
    ELSE None

\* .csv: r.get("score") or r.get("bfcl_v3_score") or ... or "": the cells
\* are strings, false when empty
csv_score(r) == IF r.score # None THEN r.score ELSE r.bfcl_v3_score

row_score(suffix, r) == IF suffix = ".csv" THEN csv_score(r) ELSE json_score(r)

\* if not m or not s / v is None: continue; float() in suppress(Exception)
row_kept(suffix, r) ==
    /\ r.model # ""
    /\ row_score(suffix, r) # None
    /\ row_score(suffix, r) # NotANumber

RECURSIVE parse_rows(_, _, _, _)
parse_rows(suffix, file_rows, i, rows) ==
    IF i > Len(file_rows) THEN rows
    ELSE parse_rows(suffix, file_rows, i + 1,
                    IF row_kept(suffix, file_rows[i])
                    THEN Append(rows, [model |-> file_rows[i].model,
                                       score |-> row_score(suffix, file_rows[i])])
                    ELSE rows)

\* parse step: rows: List[Tuple[str, float]]
parse_bfcl_rows(suffix, file_rows) == parse_rows(suffix, file_rows, 1, << >>)

\* d1: the store after upsert_model(display_name=model_name, "unknown", ...)
ingest_new(d1, row, sid) ==
    upsert_metric(d1, model_row_id(d1.models, "unknown", row.model),
                  "bfcl_v3_score", clamp01(row.score), "0..1", sid)

\* mid: resolve_model_id's answer; a model row is created when it is None
ingest_row(db, row, mid, sid) ==
    IF mid = 0
    THEN ingest_new(upsert_model(db, row.model, "unknown", row.model, NULL, NULL), row, sid)
    ELSE upsert_metric(db, mid, "bfcl_v3_score", clamp01(row.score), "0..1", sid)

RECURSIVE ingest_rows(_, _, _)
ingest_rows(db, rows, sid) ==
    IF rows = << >> THEN db
    ELSE ingest_rows(ingest_row(db, Head(rows), resolve_model_id(db.models, Head(rows).model),
                                sid),
                     Tail(rows), sid)

\* d1: the store after upsert_source("bfcl_results_ingest")
ingest_under(d1, rows) ==
    [db |-> commit(ingest_rows(d1, rows, last_insert_rowid(d1))), updated |-> Len(rows)]

\* rows: parse_bfcl_rows of the file
ingest_parsed(db, rows) ==
    IF rows = << >> THEN [db |-> db, updated |-> 0]
    ELSE ingest_under(upsert_source(db, "bfcl_results_ingest"), rows)

ingest_bfcl_results(db, suffix, file_rows) ==
    ingest_parsed(db, parse_bfcl_rows(suffix, file_rows))

----------------------------------------------------------------------------
(* The environment: candidates the search can return and what the remote   *)
(* sources hold for them.                                                  *)

OpenRouterObj(prompt, completion, params, moderated, ctx) ==
    [prompt |-> prompt, completion |-> completion, request |-> None,
     supported_parameters |-> params, is_moderated |-> moderated,
     context_length |-> ctx]

Candidate(source, name, provider, provider_id, openrouter_id, hf_repo_id, extra) ==
    [source |-> source, name |-> name, provider |-> provider,
     provider_id |-> provider_id, openrouter_id |-> openrouter_id,
     hf_repo_id |-> hf_repo_id, extra |-> extra]

CandGpt ==
    Candidate("openrouter", "GPT-X", "openrouter", "openai/gpt-x", "openai/gpt-x", NULL,
        Some(OpenRouterObj(Frac(1, 4000000), Frac(3, 4000000),
                           {"tools", "structured_outputs"}, TRUE, R(131072))))
CandMistral ==
    Candidate("openrouter", "Mistral-S", "openrouter", "mistralai/mistral-s",
              "mistralai/mistral-s", NULL,
        Some(OpenRouterObj(Frac(25, 1000000), Frac(75, 1000000), {"tools"}, FALSE, R(8192))))
CandQwen ==
    Candidate("openrouter", "Qwen-M", "openrouter", "qwen/qwen-m", "qwen/qwen-m", NULL,
        Some(OpenRouterObj(Frac(25, 10000000), Frac(75, 10000000), {}, FALSE, R(8192))))
CandOllama == Candidate("ollama", "llama3:8b", "ollama", "llama3:8b", NULL, NULL, None)
CandLlama == Candidate("hf", "meta/llama-3", "hf", "meta/llama-3", NULL, "meta/llama-3", None)

\* catalog entries whose best Hub match is not an exact one
CandGemma ==
    Candidate("openrouter", "Gemma-Q", "openrouter", "google/gemma-q", "google/gemma-q", NULL,
        Some(OpenRouterObj(Frac(1, 4000000), Frac(3, 4000000), {}, FALSE, R(8192))))
CandPhi ==
    Candidate("openrouter", "Phi-Z", "openrouter", "msft/phi-z", "msft/phi-z", NULL,
        Some(OpenRouterObj(Frac(1, 4000000), Frac(3, 4000000), {}, FALSE, R(8192))))
CandFalcon ==
    Candidate("openrouter", "Falcon-T", "openrouter", "tiiuae/falcon-t", "tiiuae/falcon-t", NULL,
        Some(OpenRouterObj(Frac(1, 4000000), Frac(3, 4000000), {}, FALSE, R(8192))))
CandCommand ==
    Candidate("openrouter", "Command-R", "openrouter", "cohere/command-r", "cohere/command-r",
              NULL,
        Some(OpenRouterObj(Frac(1, 4000000), Frac(3, 4000000), {}, FALSE, R(8192))))

LinkCandidates == {CandQwen, CandGemma, CandPhi, CandFalcon, CandCommand}

Candidates == {CandGpt, CandMistral, CandQwen, CandOllama, CandLlama}

ArenaRows(name) ==
    IF name = "GPT-X" THEN Some([score |-> R(1200), votes |-> R(1000)]) ELSE None

BigCodeBenchRows(name) ==
    CASE name = "llama3:8b" ->
            {Metric("bigcodebench_instruct", R(40), "score (0..100)"),
             Metric("bigcodebench_complete", R(70), "score (0..100)")}
      [] name = "meta/llama-3" ->
            {Metric("bigcodebench_complete", R(20), "score (0..100)")}
      [] OTHER -> {}

MmmluRows(name) ==
    IF name = "Mistral-S" THEN {Metric("mmmlu_avg", Frac(4, 5), "0..1 accuracy")} ELSE {}

BfclRows(name) ==
    IF name = "GPT-X" THEN {Metric("bfcl_v3_score", Frac(3, 4), "0..1")} ELSE {}

\* the repos of the Hub; the repos of GPT-X and Qwen-M have the ids
\* OpenRouter uses
HfRepos == {"meta/llama-3", "mistralai/Mistral-S-hf", "openai/gpt-x", "qwen/qwen-m",
            "google/gemma-q-it", "microsoft/phi-z", "tiiuae/falcon-t-7b",
            "cohere/command-r7"}

HfMetadata(repo) ==
    CASE repo = "meta/llama-3" -> Some([languages |-> R(2)])
      [] repo = "mistralai/Mistral-S-hf" -> Some([languages |-> R(5)])
      [] repo = "openai/gpt-x" -> Some([languages |-> R(2)])
      [] repo = "qwen/qwen-m" -> Some([languages |-> R(3)])
      [] repo = "google/gemma-q-it" -> Some([languages |-> R(4)])
      [] repo = "microsoft/phi-z" -> Some([languages |-> R(1)])
      [] repo = "tiiuae/falcon-t-7b" -> Some([languages |-> R(2)])
      [] OTHER -> None

\* fetch_hf_model_search and the ranking of its results by the best
\* similarity over name_variants: the best repo of a display name
HfSearchBest(name) ==
    CASE name = "Mistral-S" -> "mistralai/Mistral-S-hf"
      [] name = "GPT-X" -> "openai/gpt-x"
      [] name = "Qwen-M" -> "qwen/qwen-m"
      [] name = "Gemma-Q" -> "google/gemma-q-it"
      [] name = "Phi-Z" -> "microsoft/phi-z"
      [] name = "Falcon-T" -> "tiiuae/falcon-t-7b"
      [] name = "Command-R" -> "cohere/command-r7"
      [] OTHER -> NULL

\* and its similarity, in hundredths, as difflib computes it over the
\* variants of the display name and the OpenRouter id
HfSearchScore(name) ==
    CASE name = "Mistral-S" -> 9268
      [] name = "GPT-X" -> 10000
      [] name = "Qwen-M" -> 10000
      [] name = "Gemma-Q" -> 9032
      [] name = "Phi-Z" -> 8000
      [] name = "Falcon-T" -> 9091
      [] name = "Command-R" -> 9697
      [] OTHER -> 0

OpenLlmResults(repo) ==
    CASE repo = "meta/llama-3" ->
            Some({Metric("openllm_bbh_acc_norm", Frac(1, 2), "0..1 acc_norm"),
                  Metric("openllm_gpqa_acc_norm", Frac(1, 4), "0..1 acc_norm"),
                  Metric("openllm_mgsm_exact_match", Frac(3, 4), "0..1")})
      [] repo = "qwen/qwen-m" ->
            Some({Metric("openllm_bbh_acc_norm", Frac(3, 5), "0..1 acc_norm")})
      [] repo = "microsoft/phi-z" ->
            Some({Metric("openllm_bbh_acc_norm", Frac(2, 5), "0..1 acc_norm")})
      [] repo = "tiiuae/falcon-t-7b" ->
            Some({Metric("openllm_gpqa_acc_norm", Frac(1, 5), "0..1 acc_norm")})
      [] OTHER -> None

\* the OpenRouter catalog: the entry of an id
OpenRouterCatalog(id) ==
    IF \E c \in Candidates \cup LinkCandidates :
            c.source = "openrouter" /\ c.openrouter_id = id
    THEN (CHOOSE c \in Candidates \cup LinkCandidates :
            c.source = "openrouter" /\ c.openrouter_id = id).extra
    ELSE None

\* the candidate build_candidates makes of a models row
DbCandidate(row) ==
    Candidate("db", row.display_name, row.provider, row.provider_id,
              row.openrouter_id, row.hf_repo_id, None)

\* the candidates a query can select: the catalog entries and the stored rows
CandidatesOf(mdls) == Candidates \cup {DbCandidate(m) : m \in mdls}

Leaf(k, v, safety, openness, eu) ==
    [k |-> k, v |-> v, safety |-> safety, openness |-> openness, eu |-> eu]

ComplaiIndex(name) ==
    IF name = "Mistral-S"
    THEN Some([model_report |-> "report",
               results |-> {Leaf("complai_toxicity_en", Frac(8, 10), TRUE, FALSE, FALSE),
                            Leaf("complai_privacy_pii", Frac(6, 10), TRUE, FALSE, TRUE),
                            Leaf("complai_over_refusal", Frac(9, 10), FALSE, TRUE, FALSE),
                            Leaf("complai_unscored", None, FALSE, FALSE, FALSE)}])
    ELSE None

SpeedOpenrouter(id) == None
SpeedOllama(id) == IF id = "llama3:8b" THEN R(500) ELSE None

\* the calls that can fail; openllm: the listing of the results dataset,
\* openllm_file: the download of a results file; complai: the download of
\* every result file of the space, complai_index: the listing of the space
Services == {"arena", "bigcodebench", "mmmlu", "bfcl", "hf_api", "hf_search",
             "openllm", "openllm_file", "complai", "complai_index", "speed",
             "openrouter"}

\* at most MaxDown services fail during one evaluation
MaxDown == 1

NoRepo == [r \in HfRepos |-> None]

\* what the external calls return to an evaluation of cand while the
\* services in down fail (a failed call returns None / empty)
ExtOf(cand, down) ==
    [hf_meta |-> IF "hf_api" \in down THEN NoRepo ELSE [r \in HfRepos |-> HfMetadata(r)],
     openllm |-> IF "openllm" \in down THEN NoRepo
                 ELSE IF "openllm_file" \in down
                 THEN [r \in HfRepos |-> IF OpenLlmResults(r) # None THEN Raises ELSE None]
                 ELSE [r \in HfRepos |-> OpenLlmResults(r)],
     search_best |-> IF "hf_search" \in down THEN NULL ELSE HfSearchBest(cand.name),
     search_score |-> IF "hf_search" \in down THEN 0 ELSE HfSearchScore(cand.name),
     catalog_obj |-> IF "openrouter" \in down \/ cand.openrouter_id = NULL THEN None
                     ELSE OpenRouterCatalog(cand.openrouter_id),
     arena_row |-> IF "arena" \in down THEN None ELSE ArenaRows(cand.name),
     bigcodebench |-> IF "bigcodebench" \in down THEN {} ELSE BigCodeBenchRows(cand.name),
     mmmlu |-> IF "mmmlu" \in down THEN {} ELSE MmmluRows(cand.name),
     bfcl |-> IF "bfcl" \in down THEN {} ELSE BfclRows(cand.name),
     complai |-> IF "complai_index" \in down THEN Raises
                 ELSE IF "complai" \in down THEN None ELSE ComplaiIndex(cand.name),
     speed_openrouter |-> IF "speed" \in down \/ cand.openrouter_id = NULL THEN None
                          ELSE SpeedOpenrouter(cand.openrouter_id),
     speed_ollama |-> IF "speed" \in down THEN None ELSE SpeedOllama(cand.provider_id)]

Exts(cand, max_down) ==
    {ExtOf(cand, down) : down \in {d \in SUBSET Services : Cardinality(d) <= max_down}}

\* what the benchmark datasets yield to the scale overrides
BenchDown == [arena |-> None, bcb |-> << >>]
BenchUp ==
    [arena |-> <<R(900), R(1400)>>,
     bcb |-> [k \in {"bigcodebench_instruct", "bigcodebench_complete"} |->
                IF k = "bigcodebench_instruct" THEN <<R(10), R(60)>> ELSE <<R(20), R(80)>>]]
BenchStates == {BenchDown, BenchUp}

\* rows of a file given to ingest-bfcl
FileRow(model, score) == [model |-> model, score |-> score, bfcl_v3_score |-> None]
FileRows == {FileRow("gpt-x", Frac(9, 10)), FileRow("new-model", Frac(3, 2)),
             FileRow("", Frac(1, 2)), FileRow("Mistral-S", None)}
MaxRows == 1
Files == UNION {[1..n -> FileRows] : n \in 0..MaxRows}

----------------------------------------------------------------------------
(* State machine: one step per CLI command.  standard is the standard the  *)
(* run passes to rescore_all; bench is what the benchmark datasets yield.  *)

VARIABLES models, sources, raw_metrics, links, standards, scores,
          standard, bench, now, op,
          context, cache_files, process

vars == <<models, sources, raw_metrics, links, standards, scores,
          standard, bench, now, op, context, cache_files, process>>

\* what the commands of the store leave alone: the Context of the WASM SDK,
\* the files of the cache directory and the module globals of the process
outside == <<context, cache_files, process>>

\* ExecutionResult.ok(): cls()
ExecutionResult_ok == [outputs |-> << >>, error |-> NULL, activate_exec |-> << >>,
                       pending |-> NULL]

\* the files of the cache directory
CacheFiles == {"mmmlu", "bfcl", "openrouter_models", "complai_index", "hf_download"}

\* no file
Absent == << >>

\* _MMMLU_RESULTS_CACHE = None, _BFCL_RESULTS_CACHE = None; writing: the
\* cache file the process has opened for writing, pending: what it writes
ProcessStart == [mmmlu |-> None, bfcl |-> None, writing |-> NULL, pending |-> NULL]

OutsideInit ==
    /\ context = ExecutionResult_ok
    /\ cache_files = [f \in CacheFiles |-> Absent]
    /\ process = ProcessStart

\* commands run before the model stops
MaxTime == 2

\* commands of a run in which every remote source answers
MaxSeq == 4

\* the store a command starts from: everything committed
DB == [models |-> models, sources |-> sources, raw_metrics |-> raw_metrics,
       links |-> links,
       committed |-> [models |-> models, sources |-> sources,
                      raw_metrics |-> raw_metrics, links |-> links],
       raised |-> FALSE]

SetDB(db) ==
    /\ models' = db.models
    /\ sources' = db.sources
    /\ raw_metrics' = db.raw_metrics
    /\ links' = db.links

\* a rescore_all over the rows stored before the command began
Rescore_stale(db, o) ==
    \E r \in {rescore_all(models, raw_metrics, standards, scores, bench, standard,
                           now + 1)} :
        /\ standards' = r.standards
        /\ scores' = r.scores
        /\ op' = [o EXCEPT !.raised = r.raised, !.rescored = r.updated,
                           !.updated = IF o.cmd = "ingest-bfcl" THEN @ ELSE r.updated]

\* the rescore_all that ends a command; o: what the command did before it.
\* op.rescored is the count rescore_all returned, op.updated the count the
\* command reports first (ingest-bfcl: the rows ingested)
Rescore(db, o) ==
    \E r \in {rescore_all(db.models, db.raw_metrics, standards, scores, bench, standard,
                           now + 1)} :
        /\ standards' = r.standards
        /\ scores' = r.scores
        /\ op' = [o EXCEPT !.raised = r.raised, !.rescored = r.updated,
                           !.updated = IF o.cmd = "ingest-bfcl" THEN @ ELSE r.updated]

Init ==
    /\ OutsideInit
    /\ models = {}
    /\ sources = << >>
    /\ raw_metrics = {}
    /\ links = {}
    /\ standards = {}
    /\ scores = {}
    /\ standard \in Standards
    /\ bench \in BenchStates
    /\ now = 0
    /\ op = [cmd |-> "init", model_id |-> 0, updated |-> 0, invalidated |-> FALSE, raised |-> FALSE,
             rescored |-> 0]

\* eval: evaluate_and_store = evaluate_and_store_metrics, then rescore_all.
\* An exception out of evaluate_and_store_metrics ends the process: the
\* store keeps what was committed and rescore_all does not run.
\* what an evaluation saw of the autolink: the candidate, the stored
\* hf_repo_id of its row before, and what the Hub answered about the best
\* search match
link_seen(traced, mdls, cand, ext) ==
    IF ~traced THEN None
    ELSE Some([cand |-> cand,
               was |-> IF \E m \in mdls : m.provider = cand.provider
                                         /\ m.provider_id = cand.provider_id
                       THEN (CHOOSE m \in mdls : m.provider = cand.provider
                                         /\ m.provider_id = cand.provider_id).hf_repo_id
                       ELSE NULL,
               sources |-> Len(sources),
               search_best |-> ext.search_best,
               search_score |-> ext.search_score,
               openllm |-> ext.search_best # NULL
                           /\ fetch_openllm_results_json(ext, ext.search_best) # None,
               metadata |-> ext.search_best # NULL
                            /\ fetch_hf_model_metadata(ext, ext.search_best) # None])

\* eval of a candidate of the catalog or of the stored rows
EvalOf(catalog, limit, max_down, speeds, traced) ==
    /\ now < limit
    /\ \E cand \in catalog \cup {DbCandidate(m) : m \in models}, measure_speed \in speeds :
         \E ext \in Exts(cand, max_down) :
            \E e \in {evaluate_and_store_metrics(DB, cand, measure_speed, ext)} :
                IF e.raised
                THEN /\ SetDB(e.db.committed)
                     /\ UNCHANGED <<standards, scores>>
                     /\ op' = [cmd |-> "eval", model_id |-> e.model_id, updated |-> 0,
                               invalidated |-> hf_invalid(cand, ext), raised |-> TRUE,
                               rescored |-> 0, lost |-> uncommitted(e.db),
                               link |-> link_seen(traced, models, cand, ext)]
                ELSE /\ SetDB(e.db)
                     /\ Rescore(e.db, [cmd |-> "eval", model_id |-> e.model_id,
                                       updated |-> 0,
                                       invalidated |-> hf_invalid(cand, ext),
                                       raised |-> FALSE, rescored |-> 0,
                                       lost |-> uncommitted(e.db),
                                       link |-> link_seen(traced, models, cand, ext)])
    /\ now' = now + 1
    /\ UNCHANGED <<standard, bench>>
    /\ UNCHANGED outside

Eval(limit, max_down, speeds) == EvalOf(Candidates, limit, max_down, speeds, FALSE)

\* rescore
RescoreStep(limit) ==
    /\ now < limit
    /\ Rescore(DB, [cmd |-> "rescore", model_id |-> 0, updated |-> 0,
                    invalidated |-> FALSE, raised |-> FALSE, rescored |-> 0])
    /\ now' = now + 1
    /\ UNCHANGED <<models, sources, raw_metrics, links, standard, bench>>
    /\ UNCHANGED outside

EvalCmd == Eval(MaxTime, MaxDown, BOOLEAN)

RescoreCmd == RescoreStep(MaxTime)

\* ingest-bfcl: ingest_bfcl_results, then rescore_all
IngestBfcl(suffixes, files, limit) ==
    /\ now < limit
    /\ \E suffix \in suffixes, file \in files :
          \E g \in {ingest_bfcl_results(DB, suffix, file)} :
              /\ SetDB(g.db)
              /\ Rescore(g.db, [cmd |-> "ingest-bfcl", model_id |-> 0,
                                updated |-> g.updated, invalidated |-> FALSE,
                                raised |-> FALSE, rescored |-> 0,
                                file |-> [suffix |-> suffix, rows |-> file]])
    /\ now' = now + 1
    /\ UNCHANGED <<standard, bench>>
    /\ UNCHANGED outside

IngestBfclCmd == IngestBfcl({".json"}, Files, MaxTime)

Next == EvalCmd \/ RescoreCmd \/ IngestBfclCmd

Spec == Init /\ [][Next]_vars

\* The same commands run with a standard that names an unknown transform.
CfgInit ==
    /\ OutsideInit
    /\ models = {}
    /\ sources = << >>
    /\ raw_metrics = {}
    /\ links = {}
    /\ standards = {}
    /\ scores = {}
    /\ standard = BAD_STANDARD
    /\ bench \in BenchStates
    /\ now = 0
    /\ op = [cmd |-> "init", model_id |-> 0, updated |-> 0, invalidated |-> FALSE,
             raised |-> FALSE, rescored |-> 0]

CfgSpec == CfgInit /\ [][Next]_vars

\* The same commands run with a standard that declares a key twice.
MixInit ==
    /\ OutsideInit
    /\ models = {}
    /\ sources = << >>
    /\ raw_metrics = {}
    /\ links = {}
    /\ standards = {}
    /\ scores = {}
    /\ standard = MIXED_STANDARD
    /\ bench \in BenchStates
    /\ now = 0
    /\ op = [cmd |-> "init", model_id |-> 0, updated |-> 0, invalidated |-> FALSE,
             raised |-> FALSE, rescored |-> 0]

MixSpec == MixInit /\ [][Next]_vars

\* Longer runs in which every remote source answers and the speed probe is
\* off, while the benchmark datasets may come and go between commands.
EvalAllUp == Eval(MaxSeq, 0, {FALSE})

RescoreAgain == RescoreStep(MaxSeq)

\* the remote benchmark datasets become reachable or unreachable
DatasetChange ==
    /\ now < MaxSeq
    /\ op.cmd # "dataset"
    /\ bench' \in BenchStates \ {bench}
    /\ op' = [cmd |-> "dataset", model_id |-> 0, updated |-> 0, invalidated |-> FALSE, raised |-> FALSE,
             rescored |-> 0]
    /\ UNCHANGED <<models, sources, raw_metrics, links, standards, scores,
                   standard, now>>
    /\ UNCHANGED outside

SeqNext == EvalAllUp \/ RescoreAgain \/ DatasetChange

SeqSpec == Init /\ [][SeqNext]_vars

\* get_or_create_standard on its own: the store meets standards of several
\* versions of the program, written with their keys in any order.
MaxStandards == 2

\* the same name as ALT_STANDARD, another content
ALT_STANDARD_FULL == [ALT_STANDARD EXCEPT !.fallback_confidence_multiplier = One]

Orders(keys) ==
    {o \in [1..Len(keys) -> Range(keys)] : \A i, j \in 1..Len(keys) : o[i] = o[j] => i = j}

\* DEFAULT_STANDARD as it is, and with its multiplier written out
StandardDicts ==
    {[keys |-> o, fields |-> std] :
        o \in Orders(<<"name", "fallback_confidence_multiplier", "categories">>),
        std \in {DEFAULT_STANDARD, ALT_STANDARD, ALT_STANDARD_FULL}}
    \cup {[keys |-> o, fields |-> DEFAULT_STANDARD] : o \in Orders(StandardKeys(DEFAULT_STANDARD))}

StandardCmd ==
    /\ now < MaxStandards
    /\ \E d \in StandardDicts :
          \E t \in {get_or_create_standard(standards, d)} :
              /\ standards' = t
              /\ standard' = d.fields
              /\ op' = [cmd |-> "standard", standard |-> d,
                        standard_id |-> standard_row_id(t, d)]
    /\ now' = now + 1
    /\ UNCHANGED <<models, sources, raw_metrics, links, scores, bench>>
    /\ UNCHANGED outside

StdInit == Init /\ standard = DEFAULT_STANDARD /\ bench = BenchDown

StdSpec == StdInit /\ [][StandardCmd]_vars

----------------------------------------------------------------------------
(* Properties.  In every state of Spec the scores table is the result of   *)
(* a rescore_all over the raw_metrics, the standard and the benchmark      *)
(* datasets of that state, because every command ends in one.              *)

ModelIds == {m.id : m \in models}

\* the category of the standard a scores row is about
Cfg(cat) == CHOOSE c \in Range(standard.categories) : c.cat = cat

Has(mid, key) == \E r \in raw_metrics : r.model_id = mid /\ r.key = key

RawOf(mid, key) == (CHOOSE r \in raw_metrics : r.model_id = mid /\ r.key = key).value

\* the positions of specs whose key the model has a RawMetric row for
Available(mid, specs) == {i \in DOMAIN specs : Has(mid, specs[i].key)}

Keys(specs) == {specs[i].key : i \in DOMAIN specs}

UsedKeys(r) == {r.used[i].key : i \in DOMAIN r.used}

SpecOfKey(cfg, key) ==
    CHOOSE sp \in Range(cfg.metrics \o cfg.fallbacks) : sp.key = key

RECURSIVE WeightSum(_, _)
WeightSum(specs, I) ==
    IF I = {} THEN Zero
    ELSE LET i == CHOOSE j \in I : TRUE
         IN  RAdd(specs[i].weight, WeightSum(specs, I \ {i}))

\* sum of n_i * weight_i over the positions I, n_i being the normalized
\* value of the model's raw metric (0.5 when the key has no range)
RECURSIVE NormSum(_, _, _, _)
NormSum(mid, specs, I, np) ==
    IF I = {} THEN Zero
    ELSE LET i == CHOOSE j \in I : TRUE
             n == IF specs[i].key \in DOMAIN np
                  THEN normalize_value(RawOf(mid, specs[i].key), specs[i], np[specs[i].key])
                  ELSE Half
         IN  RAdd(RMul(n, specs[i].weight), NormSum(mid, specs, I \ {i}, np))

InUnit(x) == RLe(Zero, x) /\ RLe(x, One)

\* the last command ended in its rescore_all, so the scores table is the
\* result of a rescore over the rows now stored; an eval that an exception
\* ended leaves the scores of the command before it
Rescored == ~op.raised

\* C1: after any sequence of evaluations, ingest-bfcl runs and rescore
\* passes, under a standard with weights >= 0 and a multiplier in [0,1],
\* every row of the scores table has 0 <= score <= 1 and
\* 0 <= confidence <= 1.
ScoresInUnitInterval ==
    \A r \in scores : InUnit(r.score) /\ InUnit(r.confidence)

\* a row scored 1.0 from a raw value that lies above the top of its range
ScoreClampedAtOne ==
    \E r \in scores : \E i \in DOMAIN r.used :
        /\ r.used[i].norm_params # None
        /\ RLt(r.used[i].norm_params[2],
               transform_value(r.used[i].raw,
                               SpecOfKey(Cfg(r.category), r.used[i].key).transform))
        /\ r.used[i].norm = One
        /\ Len(r.used) = 1
        /\ r.score = One

StripTime(rows) == {[r EXCEPT !.computed_at = 0] : r \in rows}

\* C2: a rescore that follows a command (each ends in its own rescore)
\* with models, raw_metrics, the standard and the benchmark datasets
\* unchanged leaves the scores table identical except for computed_at.
RescoreIdempotent ==
    [][(op.cmd # "dataset" /\ op'.cmd = "rescore")
         => /\ StripTime(scores') = StripTime(scores)
            /\ Cardinality(scores') = Cardinality(scores)]_vars

\* three models evaluated one after another, then an extra rescore
RescoredAfterThree ==
    /\ op.cmd = "rescore"
    /\ Cardinality(models) = 3
    /\ Cardinality(scores) = 3 * Len(standard.categories)
    /\ \A r \in scores : r.computed_at = now

\* C3: if the model has a RawMetric row for the key of at least one
\* primary MetricSpec of a category (weights may be any value >= 0), the
\* Score row of that category has used_fallback = false and lists only
\* primary metrics in details.used.
PrimaryAvailableNeverFallsBack ==
    Rescored => \A r \in scores :
        Available(r.model_id, Cfg(r.category).metrics) # {}
            => /\ r.used_fallback = FALSE
               /\ UsedKeys(r) \subseteq Keys(Cfg(r.category).metrics)

ProbeKeys == {"bfcl_v3_score", "context_length_tokens"}
ProbeValues == {Zero, Frac(9, 10)}

\* C4: raw_metrics holds at most one row per (model_id, key); an upsert
\* leaves exactly the row with the value, unit and source_id it was given
\* and changes no row of another (model_id, key); the row an ingest-bfcl
\* run wrote carries the source_id of that run.
RawMetricUpsert ==
    /\ \A r1, r2 \in raw_metrics :
          (r1.model_id = r2.model_id /\ r1.key = r2.key) => r1 = r2
    /\ (op.cmd = "ingest-bfcl" /\ op.updated > 0)
          => \E r \in raw_metrics :
                r.key = "bfcl_v3_score" /\ r.source_id = Len(sources)
    /\ \A mid \in ModelIds, key \in ProbeKeys, value \in ProbeValues :
          LET after == upsert_metric(DB, mid, key, value, "probe", Len(sources)).raw_metrics
          IN  /\ {r \in after : r.model_id = mid /\ r.key = key}
                   = {[model_id |-> mid, key |-> key, value |-> value,
                       unit |-> "probe", source_id |-> Len(sources)]}
              /\ {r \in after : ~(r.model_id = mid /\ r.key = key)}
                   = {r \in raw_metrics : ~(r.model_id = mid /\ r.key = key)}

\* the bfcl score an evaluation stored for GPT-X was replaced by the score
\* of an ingested file
BfclScoreReplaced ==
    /\ op.cmd = "ingest-bfcl"
    /\ \E i \in DOMAIN sources : sources[i] = "bfcl_results"
    /\ \E m \in models, r \in raw_metrics :
          /\ m.provider = "openrouter" /\ m.display_name = "GPT-X"
          /\ r.model_id = m.id /\ r.key = "bfcl_v3_score"
          /\ r.value = Frac(9, 10) /\ r.source_id = Len(sources)
          /\ sources[r.source_id] = "bfcl_results_ingest"

UsesCost(cfg) == "cost_usd_per_1m_mixed" \in Keys(cfg.metrics \o cfg.fallbacks)

\* C5: under the default standard, evaluating a new model and rescoring
\* leaves the score of every previously stored model unchanged in every
\* category whose metric specs do not use cost_usd_per_1m_mixed.
NewModelKeepsOldScores ==
    [][(standard = DEFAULT_STANDARD /\ op'.cmd = "eval" /\ op'.model_id \notin ModelIds
        /\ Rescored /\ ~op'.raised)
         => \A r \in scores :
               ~UsesCost(Cfg(r.category))
                  => \E r2 \in scores' : /\ r2.model_id = r.model_id
                                         /\ r2.category = r.category
                                         /\ r2.score = r.score]_vars

\* both ends of a range under the transform of the spec
Ends(mm, transform) ==
    <<transform_value(mm[1], transform), transform_value(mm[2], transform)>>

\* the scale the benchmark datasets give for a key, if any
BenchmarkScale(key) ==
    IF key = "arena_score" THEN bench.arena
    ELSE IF key \in DOMAIN bench.bcb THEN bench.bcb[key]
    ELSE None

\* the scale a spec declares, if any
DeclaredScale(scale) ==
    IF scale.kind \in {"unit", "binary"} THEN <<Zero, One>>
    ELSE IF scale.kind = "range" THEN <<scale.min, scale.max>>
    ELSE None

RowsOfKey(key) == {r \in raw_metrics : r.key = key}

Transformed(key, transform) == {transform_value(r.value, transform) : r \in RowsOfKey(key)}

\* C6: for every key other than cost_usd_per_1m_mixed, compute_norm_params
\* yields the benchmark-derived scale when there is one for the key, else
\* the declared fixed scale, else the cohort min/max and that only when at
\* least two values exist; a declared binary scale maps raw 1 to 1.0
\* (better = higher) or 0.0 (better = lower).
NormParamsPriority ==
    /\ \A sp \in Range(AllSpecs(standard)) :
          sp.key # "cost_usd_per_1m_mixed" =>
            LET params == compute_norm_params(raw_metrics, bench, sp)
            IN  IF BenchmarkScale(sp.key) # None
                THEN params = Ends(BenchmarkScale(sp.key), sp.transform)
                ELSE IF DeclaredScale(sp.scale) # None
                THEN params = Ends(DeclaredScale(sp.scale), sp.transform)
                ELSE /\ Cardinality(RowsOfKey(sp.key)) < 2 => params = None
                     /\ Cardinality(Transformed(sp.key, sp.transform)) >= 2
                           => params = <<RSetMin(Transformed(sp.key, sp.transform)),
                                         RSetMax(Transformed(sp.key, sp.transform))>>
    /\ \A r \in scores : \A i \in DOMAIN r.used :
          LET sp == SpecOfKey(Cfg(r.category), r.used[i].key)
          IN  (sp.scale.kind = "binary" /\ r.used[i].raw = One)
                 => r.used[i].norm = IF sp.better = "higher" THEN One ELSE Zero

UsedWith(key, params) ==
    \E r \in scores : \E i \in DOMAIN r.used :
        r.used[i].key = key /\ r.used[i].norm_params = params

\* the benchmark range beat a declared range, a cohort range was used for
\* a key without a scale, and a binary metric with raw 1 was scored
AllThreeScalesUsed ==
    /\ standard = DEFAULT_STANDARD
    /\ bench = BenchUp
    /\ UsedWith("bigcodebench_complete", <<R(20), R(80)>>)
    /\ UsedWith("hf_language_count", <<log1p(R(2)), log1p(R(5))>>)
    /\ \E r \in scores : \E i \in DOMAIN r.used :
          /\ r.used[i].key = "openrouter_tools_supported"
          /\ r.used[i].raw = One /\ r.used[i].norm = One

CostKey == "cost_usd_per_1m_mixed"

PrimaryWeightedMean ==
    LET np == norm_params_for(raw_metrics, bench, standard)
    IN  Rescored => \A r \in scores :
          LET specs == Cfg(r.category).metrics
              avail == Available(r.model_id, specs)
          IN  avail # {} =>
                /\ RMul(r.score, WeightSum(specs, avail))
                     = NormSum(r.model_id, specs, avail, np)
                /\ RMul(r.confidence, total_weight(WeightSum(specs, DOMAIN specs)))
                     = WeightSum(specs, avail)

\* C9: when no primary metric of a category is available for a model but
\* a fallback metric is, the row has used_fallback = true, lists only
\* fallback metrics, and its confidence is (available fallback weight /
\* total declared fallback weight) * fallback_confidence_multiplier.
FallbackConfidenceScaled ==
    Rescored => \A r \in scores :
        LET cfg == Cfg(r.category)
            avail == Available(r.model_id, cfg.fallbacks)
        IN  (Available(r.model_id, cfg.metrics) = {} /\ avail # {})
              => /\ r.used_fallback = TRUE
                 /\ UsedKeys(r) \subseteq Keys(cfg.fallbacks)
                 /\ RMul(r.confidence,
                         total_weight(WeightSum(cfg.fallbacks, DOMAIN cfg.fallbacks)))
                      = RMul(WeightSum(cfg.fallbacks, avail),
                             standard.fallback_confidence_multiplier)

\* a model holding arena_score and no coding metric: coding is scored from
\* the fallback with confidence 1.0 * 0.33
CodingFromArenaOnly ==
    /\ standard = DEFAULT_STANDARD
    /\ \E r \in scores :
          /\ r.category = "coding"
          /\ r.used_fallback = TRUE
          /\ UsedKeys(r) = {"arena_score"}
          /\ r.confidence = Frac(33, 100)

\* C10: when the model has no RawMetric row for any primary key and none
\* for any fallback key (or the category declares no fallbacks), the row
\* has score = 0.5, confidence = 0.0 and details.used = [].
NoMetricsDefault ==
    \A r \in scores :
        LET cfg == Cfg(r.category)
        IN  (Available(r.model_id, cfg.metrics) = {}
             /\ Available(r.model_id, cfg.fallbacks) = {})
              => /\ r.score = Half
                 /\ r.confidence = Zero
                 /\ r.used = << >>

\* a stored model without context_length_tokens, in the category that
\* declares no fallbacks
ContextLengthDefaulted ==
    /\ standard = DEFAULT_STANDARD
    /\ \E r \in scores :
          /\ r.category = "context_length"
          /\ ~Has(r.model_id, "context_length_tokens")
          /\ r.score = Half /\ r.confidence = Zero /\ r.used = << >>

\* the spec's range comes from the stored cohort
CohortScaled(sp) ==
    /\ sp.key = CostKey \/ (BenchmarkScale(sp.key) = None /\ DeclaredScale(sp.scale) = None)
    /\ compute_norm_params(raw_metrics, bench, sp) # None

CostScore(mid) ==
    (CHOOSE r \in scores : r.model_id = mid /\ r.category = "cost").score

\* C11: for a cohort-normalized metric normalize_value is order-preserving
\* onto [0,1]: with better = higher the maximum gets 1.0, the minimum 0.0,
\* equal raw values equal n, a larger raw value never a smaller n; with
\* better = lower n is 1 - n_higher; the cost scores of the default
\* standard strictly decrease with cost, and the cheapest model's score is
\* 1 - the dearest model's.
CohortOrderPreserved ==
    /\ \A sp \in Range(AllSpecs(standard)) :
          CohortScaled(sp) =>
            LET params == compute_norm_params(raw_metrics, bench, sp)
                hi == [sp EXCEPT !.better = "higher"]
                lo == [sp EXCEPT !.better = "lower"]
                tv == Transformed(sp.key, sp.transform)
            IN  \A a, b \in RowsOfKey(sp.key) :
                  /\ transform_value(a.value, sp.transform) = RSetMax(tv)
                        => normalize_value(a.value, hi, params) = One
                  /\ transform_value(a.value, sp.transform) = RSetMin(tv)
                        => normalize_value(a.value, hi, params) = Zero
                  /\ a.value = b.value
                        => normalize_value(a.value, sp, params)
                             = normalize_value(b.value, sp, params)
                  /\ RLe(a.value, b.value)
                        => RLe(normalize_value(a.value, hi, params),
                               normalize_value(b.value, hi, params))
                  /\ normalize_value(a.value, lo, params)
                        = RSub(One, normalize_value(a.value, hi, params))
    /\ (standard = DEFAULT_STANDARD /\ Cardinality(Transformed(CostKey, "log1p")) >= 2)
          => \A a, b \in RowsOfKey(CostKey) :
                /\ RLt(a.value, b.value) => RLt(CostScore(b.model_id), CostScore(a.model_id))
                /\ (a.value = RSetMin(Transformed(CostKey, "none"))
                    /\ b.value = RSetMax(Transformed(CostKey, "none")))
                      => CostScore(a.model_id) = RSub(One, CostScore(b.model_id))

\* three models with costs 0.5 < 5 < 50 scored 1, 2140/3527 and 0 on cost
ThreeCostsRanked ==
    /\ standard = DEFAULT_STANDARD
    /\ {r.value : r \in RowsOfKey(CostKey)} = {Half, R(5), R(50)}
    /\ \E a, b, c \in RowsOfKey(CostKey) :
          /\ a.value = Half /\ b.value = R(5) /\ c.value = R(50)
          /\ CostScore(a.model_id) = One
          /\ CostScore(b.model_id) = Frac(2140, 3527)
          /\ CostScore(c.model_id) = Zero

\* C12: no two rows of models share (provider, provider_id); upsert_model
\* with a pair that exists returns the id of the existing row and inserts
\* no row.
ModelsUniqueByProviderId ==
    /\ \A m1, m2 \in models :
          (m1.provider = m2.provider /\ m1.provider_id = m2.provider_id) => m1 = m2
    /\ op.cmd = "eval" => op.model_id \in ModelIds
    /\ \A m \in models :
          LET after == upsert_model(DB, "renamed", m.provider, m.provider_id, NULL, NULL).models
          IN  /\ Cardinality(after) = Cardinality(models)
              /\ {x.id : x \in after} = ModelIds
              /\ model_row_id(after, m.provider, m.provider_id) = m.id

\* the same candidate evaluated twice: one row, the id of the first run
ModelEvaluatedTwice ==
    /\ now = 2
    /\ op.cmd = "eval"
    /\ op.model_id = 1
    /\ Cardinality(models) = 1
    /\ Len(sources) >= 2

\* C13: a command never sets a non-null openrouter_id or hf_repo_id of a
\* models row back to null, except that the evaluation of a candidate whose
\* hf_repo_id equals its openrouter_id and whose HF metadata is not found
\* may clear the hf_repo_id of that model.
IdsNeverNulled ==
    [][\A m \in models :
          \E m2 \in models' :
             /\ m2.id = m.id
             /\ m.openrouter_id # NULL => m2.openrouter_id # NULL
             /\ (m.hf_repo_id # NULL /\ m2.hf_repo_id = NULL)
                   => /\ op'.cmd = "eval"
                      /\ op'.invalidated
                      /\ op'.model_id = m.id
                      /\ m.hf_repo_id = m.openrouter_id]_vars

AutolinkSources ==
    {i \in 1..Len(sources) :
        sources[i] \in {"hf_autolink_for_openllm", "hf_autolink_metadata"}}

\* Mistral-S, linked to a HF repo by its first evaluation, evaluated again
\* from a candidate without hf_repo_id while no link is found: the row
\* keeps the repo of the first evaluation
StoredRepoKept ==
    /\ now = 2
    /\ op.cmd = "eval"
    /\ ~op.invalidated
    /\ Cardinality(AutolinkSources) = 1
    /\ Cardinality({i \in 1..Len(sources) : sources[i] = "hf_model_metadata"}) = 1
    /\ \E m \in models :
          /\ m.id = op.model_id
          /\ Cardinality(models) = 1
          /\ m.display_name = "Mistral-S"
          /\ m.openrouter_id = "mistralai/mistral-s"
          /\ m.hf_repo_id = "mistralai/Mistral-S-hf"

OpenLlmKeys ==
    UNION {{x.key : x \in OpenLlmResults(r)[1]} :
              r \in {r \in HfRepos : OpenLlmResults(r) # None}}

\* C14: when an evaluation ends in which the candidate's hf_repo_id equalled
\* its openrouter_id and the HF metadata of that id was not found, the
\* hf_repo_id of the model's row is null and the model has no openllm_*
\* row in raw_metrics.
HfInvalidationClears ==
    (op.cmd = "eval" /\ op.invalidated /\ ~op.raised)
        => \A m \in models :
              m.id = op.model_id
                 => /\ m.hf_repo_id = NULL
                    /\ \A k \in OpenLlmKeys : ~Has(m.id, k)

\* equal up to key order
SameContent(d1, d2) == d1.fields = d2.fields /\ Range(d1.keys) = Range(d2.keys)

\* t1: the table after a call with d1; then a call with d2
TwoCalls(t1, d1, d2) ==
    IF SameContent(d1, d2)
    THEN /\ get_or_create_standard(t1, d2) = t1
         /\ standard_row_id(t1, d2) = standard_row_id(t1, d1)
    ELSE standard_row_id(get_or_create_standard(t1, d2), d2)
            # standard_row_id(get_or_create_standard(t1, d2), d1)

StandardRows(d) == {s \in standards : s.config_hash = sha256_json(d)}

\* C15: get_or_create_standard is content-addressed: the table holds one
\* row per config_hash, a call returns the id of the one row of its dict's
\* content, dicts that are equal up to key order get the same id and no
\* second row, and dicts of different content get different rows.
StandardContentAddressed ==
    /\ \A s1, s2 \in standards : (s1.config_hash = s2.config_hash \/ s1.id = s2.id) => s1 = s2
    /\ op.cmd = "standard"
          => /\ Cardinality(StandardRows(op.standard)) = 1
             /\ \A s \in StandardRows(op.standard) :
                   op.standard_id = s.id /\ SameContent(s.config_json, op.standard)
    /\ \A d1, d2 \in StandardDicts :
          TwoCalls(get_or_create_standard(standards, d1), d1, d2)

\* a second call finds the row the first call made of the same content
\* written in another key order
SameStandardOtherKeyOrder ==
    /\ now = 2
    /\ op.cmd = "standard"
    /\ Cardinality(standards) = 1
    /\ \E s \in standards :
          /\ s.id = op.standard_id
          /\ s.config_json.keys # op.standard.keys
          /\ s.config_json.keys # sorted(op.standard.keys)

\* C16: a failure of a source during an evaluation does not leave
\* evaluate_and_store_metrics as an exception: the eval command always
\* returns, and ends in the rescore that gives every stored model a scores
\* row of every category computed in that command.
SourceFailureContained ==
    op.cmd = "eval"
        => /\ ~op.raised
           /\ \A m \in models, i \in DOMAIN standard.categories :
                 \E r \in scores :
                    /\ r.model_id = m.id
                    /\ r.category = standard.categories[i].cat
                    /\ r.computed_at = now

NamesUnknownTransform(std) ==
    \E i \in DOMAIN AllSpecs(std) : AllSpecs(std)[i].transform \notin Transforms

\* C17: while the standard names an unknown transform every command ends
\* in an error and leaves models, sources, raw_metrics, links, standards
\* and scores as they were.
UnknownTransformRejected ==
    [][NamesUnknownTransform(standard)
          => /\ op'.raised
             /\ UNCHANGED <<models, sources, raw_metrics, links, standards, scores>>]_vars

\* the scores rows of a model and a category under the standard of the run
ScoreRowsOf(mid, cat) ==
    {r \in scores : /\ r.model_id = mid
                    /\ r.standard_id = standard_row_id(standards, as_dict(standard))
                    /\ r.category = cat}

\* np: the norm_params of a rescore over the rows now stored
FreshRows(np) ==
    \A m \in models, i \in DOMAIN standard.categories :
        /\ Cardinality(ScoreRowsOf(m.id, standard.categories[i].cat)) = 1
        /\ \A r \in ScoreRowsOf(m.id, standard.categories[i].cat) :
              r = score_row(m.id, r.standard_id, r.category,
                            score_category(raw_metrics, m.id, standard,
                                           standard.categories[i], np),
                            now)

\* C18: when a command's rescore_all has completed, every model has for
\* every category of the standard exactly one scores row keyed (model_id,
\* standard_id, category), that row is the one this pass computed from the
\* stored rows, and the count returned is models * categories.
RescoreCoversAll ==
    (op.cmd \in {"eval", "rescore", "ingest-bfcl"} /\ ~op.raised)
        => /\ op.rescored = Cardinality(models) * Len(standard.categories)
           /\ Cardinality(scores) = op.rescored
           /\ FreshRows(norm_params_for(raw_metrics, bench, standard))

\* an ingest-bfcl run that created a second model: two models, each with a
\* row of every category
TwoModelsRescored ==
    /\ op.cmd = "ingest-bfcl"
    /\ ~op.raised
    /\ op.updated = 1
    /\ Cardinality(models) = 2
    /\ \E m \in models : m.provider = "unknown"
    /\ op.rescored = 2 * Len(standard.categories)
    /\ \A r \in scores : r.computed_at = now

-----------------------------------------------------------------------------
(* batch-eval: build_candidates and the loop over the queries of main.     *)

\* the queries of a batch
Queries == {"GPT-X", "mistral", "zzz"}

\* queries on one command line
MaxQueries == 2

\* max(fuzzy_score(query, s), fuzzy_score(norm_name(query), norm_name(s)))
\* in hundredths of a point, fuzzy_score being the difflib ratio * 100
Similarity(query, s) ==
    CASE query = "GPT-X" ->
            (CASE s = "GPT-X" -> 10000
               [] s = "openai/gpt-x" -> 5882
               [] s = "Mistral-S" -> 2857
               [] s = "mistralai/mistral-s" -> 1666
               [] s = "Qwen-M" -> 1818
               [] s = "qwen/qwen-m" -> 1250
               [] s = "llama3:8b" -> 0
               [] s = "meta/llama-3" -> 2352
               [] s = "mistralai/Mistral-S-hf" -> 1481)
      [] query = "mistral" ->
            (CASE s = "GPT-X" -> 1666
               [] s = "openai/gpt-x" -> 2105
               [] s = "Mistral-S" -> 8750
               [] s = "mistralai/mistral-s" -> 5384
               [] s = "Qwen-M" -> 1538
               [] s = "qwen/qwen-m" -> 1111
               [] s = "llama3:8b" -> 2500
               [] s = "meta/llama-3" -> 4210
               [] s = "mistralai/Mistral-S-hf" -> 4827)
      [] query = "openai/gpt-x" ->
            (CASE s = "GPT-X" -> 5882
               [] s = "openai/gpt-x" -> 10000
               [] s = "Mistral-S" -> 1904
               [] s = "mistralai/mistral-s" -> 3225
               [] s = "Qwen-M" -> 3333
               [] s = "qwen/qwen-m" -> 3478
               [] s = "llama3:8b" -> 952
               [] s = "meta/llama-3" -> 3333
               [] s = "mistralai/Mistral-S-hf" -> 2941)
      [] query = "zzz" -> 0

\* 0.98 * fuzzy_score(query, id)
IdSimilarity(query, id) == (98 * Similarity(query, id)) \div 100

Larger(a, b) == IF a >= b THEN a ELSE b

\* the model ids the Hub search returns for a query
HfModelSearch(query) ==
    CASE query = "GPT-X" -> <<"openai/gpt-x">>
      [] query = "openai/gpt-x" -> <<"openai/gpt-x">>
      [] query = "mistral" -> <<"mistralai/Mistral-S-hf">>
      [] OTHER -> << >>

\* the OpenRouter catalog in the order of the listing
OpenRouterModels == <<CandGpt, CandMistral, CandQwen>>

\* the tags of the local Ollama server
OllamaTags == <<CandOllama>>

HfCandidate(mid) == Candidate("hf", mid, "hf", mid, NULL, mid, None)

Scored(c, s) == [c |-> c, s |-> s]

RECURSIVE ModelRows(_)
\* SELECT ... FROM models: the rows by id
ModelRows(mdls) ==
    IF mdls = {} THEN << >>
    ELSE <<CHOOSE m \in mdls : \A n \in mdls : m.id <= n.id>>
         \o ModelRows(mdls \ {CHOOSE m \in mdls : \A n \in mdls : m.id <= n.id})

db_scored(query, rows) ==
    [i \in 1..Len(rows) |->
        Scored(DbCandidate(rows[i]), Similarity(query, rows[i].display_name))]

openrouter_scored(query, down) ==
    IF "openrouter" \in down THEN << >>
    ELSE [i \in 1..Len(OpenRouterModels) |->
            Scored(OpenRouterModels[i],
                   Larger(Similarity(query, OpenRouterModels[i].name),
                          IdSimilarity(query, OpenRouterModels[i].provider_id)))]

ollama_scored(query, ollama) ==
    IF ~ollama THEN << >>
    ELSE [i \in 1..Len(OllamaTags) |->
            Scored(OllamaTags[i], Similarity(query, OllamaTags[i].name))]

hf_scored(query, down) ==
    IF "hf_search" \in down THEN << >>
    ELSE [i \in 1..Len(HfModelSearch(query)) |->
            Scored(HfCandidate(HfModelSearch(query)[i]),
                   Similarity(query, HfModelSearch(query)[i]))]

SameKey(a, b) == a.c.provider = b.c.provider /\ a.c.provider_id = b.c.provider_id

\* the first candidate of a key kept whatever the later scores
dedupe_put_keep_first(out, e) ==
    IF \E i \in 1..Len(out) : SameKey(out[i], e) THEN out ELSE Append(out, e)

\* best[k], obj[k] after one more scored candidate: a new key goes last, a
\* key already there keeps its place and takes the candidate of a strictly
\* higher score
dedupe_put(out, e) ==
    IF \E i \in 1..Len(out) : SameKey(out[i], e)
    THEN [i \in 1..Len(out) |->
            IF SameKey(out[i], e) /\ e.s > out[i].s THEN e ELSE out[i]]
    ELSE Append(out, e)

RECURSIVE dedupe(_, _, _)
dedupe(scored, i, out) ==
    IF i > Len(scored) THEN out
    ELSE dedupe(scored, i + 1, dedupe_put(out, scored[i]))

\* e put into a list sorted by score, highest first, behind its equals
sort_put(out, e) ==
    SelectSeq(out, LAMBDA x : x.s >= e.s) \o <<e>> \o SelectSeq(out, LAMBDA x : x.s < e.s)

RECURSIVE sort_desc(_, _, _)
\* out.sort(key=score, reverse=True): stable
sort_desc(lst, i, out) ==
    IF i > Len(lst) THEN out
    ELSE sort_desc(lst, i + 1, sort_put(out, lst[i]))

\* --limit
DefaultLimit == 25

Head_n(lst, n) == SubSeq(lst, 1, IF Len(lst) < n THEN Len(lst) ELSE n)

\* scored: the candidates of the four sources in the order they are collected
collect(query, mdls, down, ollama) ==
    db_scored(query, ModelRows(mdls)) \o openrouter_scored(query, down)
        \o ollama_scored(query, ollama) \o hf_scored(query, down)

\* down: the failing services; ollama: the local server answers
build_candidates(query, mdls, down, ollama, limit) ==
    Head_n(sort_desc(dedupe(collect(query, mdls, down, ollama), 1, << >>), 1, << >>),
           limit)

\* de-dupe preserving order
RECURSIVE uniq(_, _, _)
uniq(queries, i, out) ==
    IF i > Len(queries) THEN out
    ELSE uniq(queries, i + 1,
              IF queries[i] \in Range(out) THEN out ELSE Append(out, queries[i]))

Selected(cand, match) ==
    [name |-> cand.name, provider |-> cand.provider, provider_id |-> cand.provider_id,
     openrouter_id |-> cand.openrouter_id, hf_repo_id |-> cand.hf_repo_id,
     source |-> cand.source, match |-> match]

\* a result item; a key the code leaves out is None
Item(q, status, selected, warnings, model_id, error) ==
    [query |-> q, status |-> status, selected |-> selected, warnings |-> warnings,
     model_id |-> model_id, error |-> error, scores |-> None]

\* the warnings of a top match
low_match(match, min_match) ==
    IF match < min_match THEN <<"low_match">> ELSE << >>

\* the try block; e: what evaluate_and_store_metrics did.  The exception is
\* caught, the connection keeps the writes made before it
batch_evaluated(q, cand, match, min_match, e) ==
    [db |-> [e.db EXCEPT !.raised = FALSE],
     item |-> IF e.raised
              THEN Item(q, "error", Some(Selected(cand, match)),
                        low_match(match, min_match), None, Some("str(e)"))
              ELSE Item(q, "ok", Some(Selected(cand, match)),
                        low_match(match, min_match), Some(e.model_id), None)]

\* one pass of the loop over the queries; scored: build_candidates(q, ...)
batch_query(db, q, scored, min_match, skip_low_match, measure_speed, down) ==
    IF scored = << >>
    THEN [db |-> db, item |-> Item(q, "no_match", None, << >>, None, None)]
    ELSE IF scored[1].s < min_match /\ skip_low_match
    THEN [db |-> db,
          item |-> Item(q, "skipped_low_match", Some(Selected(scored[1].c, scored[1].s)),
                        <<"low_match">>, None, None)]
    ELSE batch_evaluated(q, scored[1].c, scored[1].s, min_match,
                         evaluate_and_store_metrics(db, scored[1].c, measure_speed,
                                                    ExtOf(scored[1].c, down)))

\* b: [db, item] of a pass; st.ranked keeps what build_candidates returned
\* to each pass
batch_append(st, scored, b) ==
    [db |-> b.db, results |-> Append(st.results, b.item),
     ranked |-> Append(st.ranked, scored)]

batch_pass(st, q, scored, min_match, skip_low_match, down) ==
    batch_append(st, scored,
                 batch_query(st.db, q, scored, min_match, skip_low_match, FALSE, down))

RECURSIVE batch_loop(_, _, _, _, _, _, _)
\* st: [db, results, ranked]
batch_loop(st, queries, i, min_match, skip_low_match, down, ollama) ==
    IF i > Len(queries) THEN st
    ELSE batch_loop(
            batch_pass(st, queries[i],
                       build_candidates(queries[i], st.db.models, down, ollama,
                                        DefaultLimit),
                       min_match, skip_low_match, down),
            queries, i + 1, min_match, skip_low_match, down, ollama)

fetch_model_scores(scs, model_id, standard_id) ==
    {r \in scs : r.model_id = model_id /\ r.standard_id = standard_id}

\* Attach scores
attach_scores(results, scs, standard_id) ==
    [i \in 1..Len(results) |->
        IF results[i].model_id = None THEN results[i]
        ELSE [results[i] EXCEPT
                !.scores = Some(fetch_model_scores(scs, results[i].model_id[1],
                                                   standard_id))]]

\* batch-eval commands of a run
MaxBatch == 2

\* --min-match, in hundredths: the default 70.0
MinMatches == {7000}

\* the services that may fail during a batch
BatchServices == {"openrouter", "complai_index"}

QueryLists == UNION {[1..n -> Queries] : n \in 1..MaxQueries}

\* batch-eval: the loop, one rescore_all for the cohort, the report
BatchEvalCmd ==
    /\ now < MaxBatch
    /\ \E args \in QueryLists, min_match \in MinMatches, skip_low_match \in BOOLEAN,
          ollama \in BOOLEAN :
         \E down \in {d \in SUBSET BatchServices : Cardinality(d) <= MaxDown} :
           \E b \in {batch_loop([db |-> DB, results |-> << >>, ranked |-> << >>],
                                uniq(args, 1, << >>), 1, min_match, skip_low_match,
                                down, ollama)} :
             \E r \in {rescore_all(b.db.models, b.db.raw_metrics, standards, scores,
                                   bench, standard, now + 1)} :
                /\ SetDB(b.db)
                /\ standards' = r.standards
                /\ scores' = r.scores
                /\ op' = [cmd |-> "batch-eval", queries |-> uniq(args, 1, << >>),
                          min_match |-> min_match, skip_low_match |-> skip_low_match,
                          ranked |-> b.ranked,
                          raised |-> r.raised, rescored |-> r.updated,
                          results |-> attach_scores(b.results, r.scores,
                                        standard_row_id(r.standards, as_dict(standard)))]
    /\ now' = now + 1
    /\ UNCHANGED <<standard, bench>>
    /\ UNCHANGED outside

\* main runs every command with DEFAULT_STANDARD
BatchInit ==
    /\ OutsideInit
    /\ models = {}
    /\ sources = << >>
    /\ raw_metrics = {}
    /\ links = {}
    /\ standards = {}
    /\ scores = {}
    /\ standard = DEFAULT_STANDARD
    /\ bench = BenchDown
    /\ now = 0
    /\ op = [cmd |-> "init", model_id |-> 0, updated |-> 0, invalidated |-> FALSE,
             raised |-> FALSE, rescored |-> 0]

BatchSpec == BatchInit /\ [][BatchEvalCmd]_vars

\* no candidate is similar to the query at all: none meets a threshold
\* above zero
NoneSimilar(cands) == \A j \in 1..Len(cands) : cands[j].s = 0

\* the status the contract gives the query of item i
StatusDue(i, cands) ==
    IF NoneSimilar(cands) THEN "no_match"
    ELSE IF cands[1].s < op.min_match /\ op.skip_low_match THEN "skipped_low_match"
    ELSE IF op.results[i].error # None THEN "error"
    ELSE "ok"

\* C19: a batch-eval gives each query exactly one result item; its status is
\* no_match when no candidate's similarity meets the threshold of the
\* command, skipped_low_match when the top match is below --min-match and
\* --skip-low-match is set (no evaluation, no model_id), error with the
\* message when the evaluation raised, ok otherwise.
BatchStatusPerQuery ==
    op.cmd = "batch-eval"
        => /\ Len(op.results) = Len(op.queries)
           /\ \A i \in 1..Len(op.results) :
                /\ op.results[i].query = op.queries[i]
                /\ op.results[i].status = StatusDue(i, op.ranked[i])
                /\ op.results[i].status = "skipped_low_match"
                      => op.results[i].model_id = None
                /\ op.results[i].status = "error" <=> op.results[i].error # None
                /\ op.results[i].status = "ok" <=> op.results[i].model_id # None

-----------------------------------------------------------------------------
(* ingest-bfcl on files of both formats.                                   *)

\* a row that gives its score in the column bfcl_v3_score
FileRowAlt(model, v) == [model |-> model, score |-> None, bfcl_v3_score |-> v]

IngestRows ==
    {FileRow("gpt-x", Frac(9, 10)), FileRow("new-model", Frac(3, 2)),
     FileRow("", Frac(1, 2)), FileRow("Mistral-S", None),
     FileRow("Mistral-S", NotANumber),
     FileRowAlt("Qwen-M", Zero), FileRowAlt("Qwen-M", Frac(1, 2))}

\* rows of a file
MaxFileRows == 2

\* ingest-bfcl commands of a run
MaxIngest == 2

Suffixes == {".csv", ".json"}

IngestFiles == UNION {[1..n -> IngestRows] : n \in 0..MaxFileRows}

IngestFileCmd == IngestBfcl(Suffixes, IngestFiles, MaxIngest)

\* an evaluation before the first file
EvalFirst == Eval(1, 0, {FALSE})

IngestNext == EvalFirst \/ IngestFileCmd

IngestSpec == BatchInit /\ [][IngestNext]_vars

\* the score a row gives, in "score" or else in "bfcl_v3_score"
GivenScore(r) == IF r.score # None THEN r.score ELSE r.bfcl_v3_score

\* a row with a model name and a numeric score
ValidRow(r) == r.model # "" /\ GivenScore(r) # None /\ GivenScore(r) # NotANumber

ValidRows(file_rows) == SelectSeq(file_rows, ValidRow)

BfclRowsOf(rm, sid) == {r \in rm : r.key = "bfcl_v3_score" /\ r.source_id = sid}

\* the ingest of the valid rows: valid, under the new source sid
IngestedExactly(valid, sid) ==
    /\ op'.updated = Len(valid)
    /\ valid = << >> => UNCHANGED <<models, sources, raw_metrics, links>>
    /\ valid # << >> =>
         /\ sources' = Append(sources, "bfcl_results_ingest")
         /\ links' = links
         /\ models \subseteq models'
         /\ \A m \in models' \ models :
               /\ m.provider = "unknown"
               /\ \E i \in 1..Len(valid) : m.display_name = valid[i].model
         /\ (resolve_model_id(models, valid[1].model) = 0)
               <=> (\E m \in models' \ models : m.display_name = valid[1].model)
         /\ raw_metrics' \ raw_metrics \subseteq BfclRowsOf(raw_metrics', sid)
         /\ \A r \in raw_metrics \ raw_metrics' :
               \E n \in BfclRowsOf(raw_metrics', sid) : n.model_id = r.model_id /\ n.key = r.key
         /\ Cardinality(BfclRowsOf(raw_metrics', sid)) \in 1..Len(valid)
         /\ \A r \in BfclRowsOf(raw_metrics', sid) :
               \E i \in 1..Len(valid), m \in models' :
                  /\ m.id = r.model_id
                  /\ match_score(valid[i].model, m.display_name) >= 70
                  /\ r.value = clamp01(GivenScore(valid[i]))
         /\ \A i \in 1..Len(valid) :
               \E r \in BfclRowsOf(raw_metrics', sid), m \in models' :
                  /\ m.id = r.model_id
                  /\ match_score(valid[i].model, m.display_name) >= 70

\* C20: ingest_bfcl_results skips the rows without a model name or without
\* a numeric score and raises nothing, returns the number of valid rows,
\* upserts for each valid row bfcl_v3_score on one model, the resolved one
\* or a new one, and writes nothing for the rows it skipped.
IngestSkipsInvalidRows ==
    [][(op'.cmd = "ingest-bfcl" /\ now' = now + 1)
          => IngestedExactly(ValidRows(op'.file.rows), Len(sources) + 1)]_vars

-----------------------------------------------------------------------------
(* The Context of the WASM SDK: one ExecutionResult per Context, changed    *)
(* in place and returned by success, fail and finish.                       *)

\* self.outputs[name] = value
ExecutionResult_set_output(r, name, value) ==
    [r EXCEPT !.outputs = SelectSeq(@, LAMBDA e : e[1] # name) \o <<<<name, value>>>>]

\* self.activate_exec.append(pin_name)
ExecutionResult_exec(r, pin_name) == [r EXCEPT !.activate_exec = Append(@, pin_name)]

ExecutionResult_set_pending(r, pending) == [r EXCEPT !.pending = pending]

Context_success(r) == ExecutionResult_exec(r, "exec_out")

Context_fail(r, error) == [r EXCEPT !.error = error]

Context_finish(r) == r

\* pins a node activates itself, output names and values, error messages
OtherPins == {"on_error"}
OutputNames == {"v"}
OutputValues == {1, 2}
Errors == {"broken", "again"}

\* pins activated on one Context
MaxExec == 3

\* the store and the cache take no part
StoreIdle ==
    UNCHANGED <<models, sources, raw_metrics, links, standards, scores, standard,
                bench, now, cache_files, process>>

\* success, fail or finish was called on the Context before
Finalized == op.cmd # "init" /\ (op.finalized \/ op.returned # None)

CtxSetOutput ==
    /\ \E name \in OutputNames, value \in OutputValues :
          /\ context' = ExecutionResult_set_output(context, name, value)
          /\ op' = [cmd |-> "set_output", error |-> NULL, returned |-> None,
                    finalized |-> Finalized]
    /\ StoreIdle

CtxActivateExec ==
    /\ Len(context.activate_exec) < MaxExec
    /\ \E pin \in OtherPins :
          /\ context' = ExecutionResult_exec(context, pin)
          /\ op' = [cmd |-> "activate_exec", error |-> NULL, returned |-> None,
                    finalized |-> Finalized]
    /\ StoreIdle

CtxSetPending ==
    /\ \E pending \in BOOLEAN :
          /\ context' = ExecutionResult_set_pending(context, pending)
          /\ op' = [cmd |-> "set_pending", error |-> NULL, returned |-> None,
                    finalized |-> Finalized]
    /\ StoreIdle

\* op.returned: the result the call returned
CtxSuccess ==
    /\ Len(context.activate_exec) < MaxExec
    /\ context' = Context_success(context)
    /\ op' = [cmd |-> "success", error |-> NULL, returned |-> Some(context'),
              finalized |-> Finalized]
    /\ StoreIdle

CtxFail ==
    /\ \E error \in Errors :
          /\ context' = Context_fail(context, error)
          /\ op' = [cmd |-> "fail", error |-> error, returned |-> Some(context'),
                    finalized |-> Finalized]
    /\ StoreIdle

CtxFinish ==
    /\ context' = Context_finish(context)
    /\ op' = [cmd |-> "finish", error |-> NULL, returned |-> Some(context'),
              finalized |-> Finalized]
    /\ StoreIdle

CtxNext ==
    CtxSetOutput \/ CtxActivateExec \/ CtxSetPending \/ CtxSuccess \/ CtxFail \/ CtxFinish

CtxSpec == BatchInit /\ [][CtxNext]_vars

\* C21: whatever was done with the Context before, the result fail(error)
\* returns has the error given and no exec_out among its activated pins,
\* and the result success() returns has exec_out activated and no error.
FinalizeResult ==
    /\ op.cmd = "fail"
          => /\ op.returned[1].error = op.error
             /\ "exec_out" \notin Range(op.returned[1].activate_exec)
    /\ op.cmd = "success"
          => /\ "exec_out" \in Range(op.returned[1].activate_exec)
             /\ op.returned[1].error = NULL

\* C22: the extractors of an evaluation commit one after the other, so an
\* evaluation that an exception ends inside a later extractor loses no
\* RawMetric or Link row an earlier extractor wrote.
ExtractorsCommitInTurn ==
    (op.cmd = "eval" /\ op.raised)
        => /\ op.lost.raw_metrics = {}
           /\ op.lost.links = {}

\* the category of the standard a scores row belongs to
CategoryNamed(cat) == CHOOSE cfg \in Range(standard.categories) : cfg.cat = cat

\* u: an entry of "used"; sp: the spec of its category that names its key;
\* own: the endpoints computed for sp, its transform applied to them
OwnEndpoints(u, sp, own) ==
    own # None => /\ u.norm_params = own
                  /\ u.norm = normalize_value(u.raw, sp, own)

\* C23: every metric used in a category score was rescaled between the
\* endpoints of its own spec, the transform of that spec applied to the raw
\* value and to both endpoints, also when other categories declare the key
\* with another transform, better or scale.
TransformOnBothEnds ==
    (op.cmd \in {"eval", "rescore", "ingest-bfcl"} /\ Rescored)
        => \A r \in scores : \A i \in DOMAIN r.used :
              OwnEndpoints(r.used[i], SpecOfKey(CategoryNamed(r.category), r.used[i].key),
                           compute_norm_params(raw_metrics, bench,
                               SpecOfKey(CategoryNamed(r.category), r.used[i].key)))

----------------------------------------------------------------------------
(* HF autolink.                                                            *)

\* Evaluations of the catalog entries whose best Hub match is close but not
\* exact, each evaluation recording what it saw of the autolink.
EvalLinkCmd == EvalOf(LinkCandidates, MaxTime, MaxDown, {FALSE}, TRUE)

LinkSpec == BatchInit /\ [][EvalLinkCmd]_vars

\* the evaluation that just finished recorded what it saw
LinkEval == op.cmd = "eval" /\ op.link # None /\ ~op.raised

\* the candidate lacks hf_repo_id but has a registry id
LacksRepo(cand) == cand.hf_repo_id = NULL /\ cand.openrouter_id # NULL

\* the repo the two rules allow: (a) the top match at 88 or more with Open
\* LLM results, else (b) the top match at 92 or more with valid metadata
AllowedRepo(t) ==
    IF t.search_best # NULL /\ t.search_score >= 8800 /\ t.openllm THEN t.search_best
    ELSE IF t.search_best # NULL /\ t.search_score >= 9200 /\ t.metadata THEN t.search_best
    ELSE NULL

\* hf_repo_id as the steps before the autolink leave it: the candidate's
\* value over the stored one, cleared by the invalidation
LeftAsItWas(t, invalidated) ==
    IF invalidated THEN NULL
    ELSE IF t.cand.hf_repo_id # NULL THEN t.cand.hf_repo_id ELSE t.was

StoredRepo(model_id) == (CHOOSE m \in models : m.id = model_id).hf_repo_id

\* C24: after an evaluation the row's hf_repo_id is either what it was
\* before the autolink or, when the candidate lacks hf_repo_id and has a
\* registry id, the top search match that rule (a) or rule (b) allows.
AutolinkOnlyOnMatch ==
    LinkEval
        => \/ StoredRepo(op.model_id) = LeftAsItWas(op.link[1], op.invalidated)
           \/ /\ LacksRepo(op.link[1].cand)
              /\ AllowedRepo(op.link[1]) # NULL
              /\ StoredRepo(op.model_id) = AllowedRepo(op.link[1])



\* C25: an evaluation of a candidate without hf_repo_id but with a registry
\* id leaves a Source row of the autolink, whether or not a repo was attached.
AutolinkAttemptPersisted ==
    (LinkEval /\ LacksRepo(op.link[1].cand))
        => \E i \in AutolinkSources : i > op.link[1].sources

----------------------------------------------------------------------------
(* search: build_candidates and its listing.                               *)

SearchQueries == Queries \cup {"openai/gpt-x"}

\* --limit values small enough to cut the list
MaxLimit == 3

MaxSearchEvals == 2

SearchDowns == {{}, {"openrouter"}, {"hf_search"}}

\* search: the ranked candidates of a query are printed, nothing is stored
SearchCmd ==
    /\ \E query \in SearchQueries, down \in SearchDowns, ollama \in BOOLEAN,
          limit \in 1..MaxLimit :
          op' = [cmd |-> "search", query |-> query, down |-> down, ollama |-> ollama,
                 limit |-> limit,
                 scored |-> build_candidates(query, models, down, ollama, limit)]
    /\ UNCHANGED <<models, sources, raw_metrics, links, standards, scores,
                   standard, bench, now>>
    /\ UNCHANGED outside

EvalSearch == Eval(MaxSearchEvals, 0, {FALSE})

SearchNext == SearchCmd \/ EvalSearch

SearchSpec == BatchInit /\ [][SearchNext]_vars

\* the scores collected for the (provider, provider_id) of e
ScoresOfKey(collected, e) ==
    {collected[k].s : k \in {j \in 1..Len(collected) : SameKey(collected[j], e)}}

RankedContract(out, collected, limit) ==
    /\ Len(out) <= limit
    /\ \A i, j \in 1..Len(out) : i < j => out[i].s >= out[j].s
    /\ \A i, j \in 1..Len(out) : i # j => ~SameKey(out[i], out[j])
    /\ \A i \in 1..Len(out) :
          /\ out[i].s \in ScoresOfKey(collected, out[i])
          /\ \A x \in ScoresOfKey(collected, out[i]) : x <= out[i].s

\* C26: build_candidates returns at most limit candidates, by score from
\* the highest down, no (provider, provider_id) twice, each with the highest
\* score collected for its pair.
BuildCandidatesRanked ==
    op.cmd = "search"
        => RankedContract(op.scored, collect(op.query, models, op.down, op.ollama),
                          op.limit)

\* a pair was collected twice with different scores and the list was cut
DuplicateCollectedAndCut ==
    /\ op.cmd = "search"
    /\ Len(op.scored) = op.limit
    /\ Len(collect(op.query, models, op.down, op.ollama)) > op.limit + 1
    /\ \E i \in 1..Len(op.scored) :
          Cardinality(ScoresOfKey(collect(op.query, models, op.down, op.ollama),
                                  op.scored[i])) > 1

----------------------------------------------------------------------------
(* The place of rescore_all in eval and in batch-eval.                     *)

\* one eval, some source failing or none, then batches
EvalOnce == Eval(1, MaxDown, {FALSE})

CohortNext == EvalOnce \/ BatchEvalCmd

CohortSpec == BatchInit /\ [][CohortNext]_vars

NothingPending == [models |-> {}, raw_metrics |-> {}, links |-> {}]

\* the scores rows are those of one pass over the rows now stored
OnePassOverStored ==
    /\ op.rescored = Cardinality(models) * Len(standard.categories)
    /\ Cardinality(scores) = op.rescored
    /\ FreshRows(norm_params_for(raw_metrics, bench, standard))

\* C27: the scores an eval leaves are computed from the rows its
\* extractors stored and committed, an eval whose extractors raised does not
\* rescore, and the scores a batch-eval leaves are those of one pass over the
\* rows stored after its last query, whatever the statuses of its items.
RescoreAfterExtractors ==
    /\ (op.cmd = "eval" /\ ~op.raised) => (op.lost = NothingPending /\ OnePassOverStored)
    /\ (op.cmd = "eval" /\ op.raised) => op.rescored = 0
    /\ (op.cmd = "batch-eval" /\ ~op.raised) => OnePassOverStored

\* a batch with an item that was not evaluated to the end and an item that
\* was, rescored once
BatchWithFailuresRescored ==
    /\ op.cmd = "batch-eval"
    /\ ~op.raised
    /\ \E i \in DOMAIN op.results :
          op.results[i].status \in {"error", "no_match", "skipped_low_match"}
    /\ \E i \in DOMAIN op.results :
          op.results[i].status = "ok" /\ op.results[i].scores # None
    /\ op.rescored > 0
    /\ \A r \in scores : r.computed_at = now

----------------------------------------------------------------------------
(* The caches: the files of the cache directory and the module globals.    *)

\* what a cache file holds: the bytes of a write that did not finish, a
\* downloaded table, the JSON of an empty table
Partial == "partial"
Data == "data"
Empty == "empty"

File(content, mtime) == <<[content |-> content, mtime |-> mtime]>>

\* the TTL of every cache, in ticks of the clock
Ttl == 1

MaxClock == 2

\* exists() and time.time() - st_mtime <= ttl
fresh(files, f, t) == files[f] # Absent /\ t - files[f][1].mtime <= Ttl

\* exists() and age < COMPLAI_CACHE_TTL_SECS
fresh_strict(files, f, t) == files[f] # Absent /\ t - files[f][1].mtime < Ttl

\* json.loads of the file: a file cut short does not parse
parses(files, f) == files[f][1].content # Partial

\* what a call did: from is "memory", "disk" or "fetch"; read is what it
\* took from there; ok: the download succeeded
CacheOp(cmd, from, read, ok, raised) ==
    [cmd |-> cmd, from |-> from, read |-> read, ok |-> ok, raised |-> raised]

StoreQuiet ==
    UNCHANGED <<models, sources, raw_metrics, links, standards, scores, standard,
                bench, context>>

\* write_bytes / write_text / open("w"): the file is truncated and stamped,
\* the content follows
open_for_write(f, content) ==
    /\ cache_files' = [cache_files EXCEPT ![f] = File(Partial, now)]
    /\ process' = [process EXCEPT !.writing = f, !.pending = content]

\* hf_download_cached
HfDownloadCached ==
    /\ process.writing = NULL
    /\ IF fresh(cache_files, "hf_download", now)
       THEN /\ op' = CacheOp("hf_download", "disk", cache_files["hf_download"][1].content,
                             TRUE, FALSE)
            /\ UNCHANGED <<cache_files, process>>
       ELSE \E ok \in BOOLEAN :
              /\ op' = CacheOp("hf_download", "fetch", NULL, ok, ~ok)
              /\ IF ok THEN open_for_write("hf_download", Data)
                 ELSE UNCHANGED <<cache_files, process>>
    /\ UNCHANGED now
    /\ StoreQuiet

\* fetch_openrouter_models_cached: a cache that does not parse is fetched
\* again
FetchOpenrouterModelsCached ==
    /\ process.writing = NULL
    /\ IF fresh(cache_files, "openrouter_models", now) /\ parses(cache_files, "openrouter_models")
       THEN /\ op' = CacheOp("openrouter_models", "disk",
                             cache_files["openrouter_models"][1].content, TRUE, FALSE)
            /\ UNCHANGED <<cache_files, process>>
       ELSE \E ok \in BOOLEAN :
              /\ op' = CacheOp("openrouter_models", "fetch", NULL, ok, ~ok)
              /\ IF ok THEN open_for_write("openrouter_models", Data)
                 ELSE UNCHANGED <<cache_files, process>>
    /\ UNCHANGED now
    /\ StoreQuiet

\* load_complai_index: json.loads of a fresh cache is outside any try
LoadComplaiIndex ==
    /\ process.writing = NULL
    /\ IF fresh_strict(cache_files, "complai_index", now)
       THEN /\ op' = CacheOp("complai_index", "disk",
                             cache_files["complai_index"][1].content, TRUE,
                             ~parses(cache_files, "complai_index"))
            /\ UNCHANGED <<cache_files, process>>
       ELSE \E ok \in BOOLEAN :
              /\ op' = CacheOp("complai_index", "fetch", NULL, ok, ~ok)
              /\ IF ok THEN open_for_write("complai_index", Data)
                 ELSE UNCHANGED <<cache_files, process>>
    /\ UNCHANGED now
    /\ StoreQuiet

\* load_mmmlu_results, load_bfcl_results; f: "mmmlu" or "bfcl".  A download
\* or a parse that fails leaves results = {}, which is written all the same.
load_results(f) ==
    /\ process.writing = NULL
    /\ IF process[f] # None
       THEN /\ op' = CacheOp(f, "memory", process[f][1], TRUE, FALSE)
            /\ UNCHANGED <<cache_files, process>>
       ELSE IF fresh(cache_files, f, now) /\ parses(cache_files, f)
       THEN /\ op' = CacheOp(f, "disk", cache_files[f][1].content, TRUE, FALSE)
            /\ process' = [process EXCEPT ![f] = Some(cache_files[f][1].content)]
            /\ UNCHANGED cache_files
       ELSE \E ok \in BOOLEAN :
              /\ op' = CacheOp(f, "fetch", NULL, ok, FALSE)
              /\ open_for_write(f, IF ok THEN Data ELSE Empty)
    /\ UNCHANGED now
    /\ StoreQuiet

LoadMmmluResults == load_results("mmmlu")

LoadBfclResults == load_results("bfcl")

\* the write completes; load_*_results then sets its module global
WriteEnd ==
    /\ process.writing # NULL
    /\ cache_files' = [cache_files EXCEPT ![process.writing] = File(process.pending, now)]
    /\ process' = IF process.writing \in {"mmmlu", "bfcl"}
                  THEN [process EXCEPT ![process.writing] = Some(process.pending),
                                       !.writing = NULL, !.pending = NULL]
                  ELSE [process EXCEPT !.writing = NULL, !.pending = NULL]
    /\ op' = CacheOp(process.writing, "fetch", process.pending, op.ok, FALSE)
    /\ UNCHANGED now
    /\ StoreQuiet

\* the process ends, by itself or interrupted in the middle of a write; the
\* next command runs in a new process
Exit ==
    /\ op.cmd # "exit"
    /\ process' = ProcessStart
    /\ op' = CacheOp("exit", NULL, NULL, TRUE, process.writing # NULL)
    /\ UNCHANGED <<cache_files, now>>
    /\ StoreQuiet

\* time passes
Tick ==
    /\ now < MaxClock
    /\ now' = now + 1
    /\ UNCHANGED <<cache_files, process, op>>
    /\ StoreQuiet

\* runs that use the three caches written with write_bytes / write_text
CacheNext ==
    \/ HfDownloadCached
    \/ FetchOpenrouterModelsCached
    \/ LoadComplaiIndex
    \/ WriteEnd
    \/ Exit
    \/ Tick

CacheSpec == BatchInit /\ [][CacheNext]_vars

\* runs that load the MMMLU and the BFCL results
ResultsNext ==
    \/ LoadMmmluResults
    \/ LoadBfclResults
    \/ WriteEnd
    \/ Exit
    \/ Tick

ResultsSpec == BatchInit /\ [][ResultsNext]_vars

\* C28: a call that takes a cache file for fresh by its mtime never reads
\* the bytes of a write that did not finish.
NoPartialFileRead ==
    (op.cmd \in {"hf_download", "openrouter_models", "complai_index"} /\ op.from = "disk")
        => op.read # Partial

\* C30: neither the cache file nor the module global of the MMMLU or the
\* BFCL results ever holds the empty table of a failed fetch.
NoEmptyResultCached ==
    \A f \in {"mmmlu", "bfcl"} :
        /\ cache_files[f] # Absent => cache_files[f][1].content # Empty
        /\ process[f] # Some(Empty)

----------------------------------------------------------------------------
(* norm_name on strings of characters.                                     *)

\* a string is a sequence of characters; one character stands for each class
\* the regular expressions of norm_name tell apart: an upper-case letter, a
\* lower-case letter, a digit, the space, another white space, the colon,
\* the hyphen (in [\w .-]), the slash (in neither), the underscore (in \w)
Chars == {"A", "a", "7", " ", "TAB", ":", "-", "/", "_"}

MaxLen == 4

Strings == UNION {[1..n -> Chars] : n \in 0..MaxLen}

\* \s
IsSpace(c) == c \in {" ", "TAB"}

\* [\w .-]
InPrefixClass(c) == c \in {"A", "a", "7", "_", " ", "-"}

\* [a-z0-9]
IsAlnum(c) == c \in {"a", "7"}

lower_char(c) == IF c = "A" THEN "a" ELSE c

RECURSIVE lstrip(_)
lstrip(s) == IF s # << >> /\ IsSpace(Head(s)) THEN lstrip(Tail(s)) ELSE s

RECURSIVE rstrip(_)
rstrip(s) ==
    IF s # << >> /\ IsSpace(s[Len(s)]) THEN rstrip(SubSeq(s, 1, Len(s) - 1)) ELSE s

\* str.strip()
strip(s) == rstrip(lstrip(s))

\* u matches \s*[\w .-]+\s*
prefix_matches(u) ==
    \E i, j \in 1..Len(u) :
        /\ i <= j
        /\ \A k \in 1..(i - 1) : IsSpace(u[k])
        /\ \A k \in i..j : InPrefixClass(u[k])
        /\ \A k \in (j + 1)..Len(u) : IsSpace(u[k])

first_colon(s) == CHOOSE k \in 1..Len(s) : s[k] = ":" /\ \A j \in 1..(k - 1) : s[j] # ":"

\* re.sub(r"^\s*[\w .-]+\s*:\s*", "", s): the class holds no colon, so a
\* match ends at the first colon
strip_prefix(s) ==
    IF ":" \in Range(s) /\ prefix_matches(SubSeq(s, 1, first_colon(s) - 1))
    THEN lstrip(SubSeq(s, first_colon(s) + 1, Len(s)))
    ELSE s

\* s.lower()
lower(s) == [i \in 1..Len(s) |-> lower_char(s[i])]

RECURSIVE sub_runs(_, _, _, _)
\* re.sub(class+, " ", s): every maximal run of characters of the class
\* becomes one space; class: its characters
sub_runs(s, i, out, class) ==
    IF i > Len(s) THEN out
    ELSE IF s[i] \notin class THEN sub_runs(s, i + 1, Append(out, s[i]), class)
    ELSE IF i > 1 /\ s[i - 1] \in class THEN sub_runs(s, i + 1, out, class)
    ELSE sub_runs(s, i + 1, Append(out, " "), class)

\* [^a-z0-9]
NotAlnum == {c \in Chars : ~IsAlnum(c)}

\* \s
Spaces == {c \in Chars : IsSpace(c)}

\* norm_name without the closing strip()
norm_name_unstripped(s) ==
    sub_runs(sub_runs(lower(strip_prefix(strip(s))), 1, << >>, NotAlnum), 1, << >>, Spaces)

norm_name_of(s) ==
    strip(sub_runs(sub_runs(lower(strip_prefix(strip(s))), 1, << >>, NotAlnum),
                   1, << >>, Spaces))

\* a call of norm_name on a string
NormInit ==
    /\ OutsideInit
    /\ models = {}
    /\ sources = << >>
    /\ raw_metrics = {}
    /\ links = {}
    /\ standards = {}
    /\ scores = {}
    /\ standard = DEFAULT_STANDARD
    /\ bench = BenchDown
    /\ now = 0
    /\ \E s \in Strings : op = [cmd |-> "input", s |-> s, out |-> s]

\* norm_name of the string at hand: the input, then what norm_name returned
NormName ==
    /\ op' = [cmd |-> "norm_name", s |-> op.out, out |-> norm_name_of(op.out)]
    /\ UNCHANGED <<models, sources, raw_metrics, links, standards, scores,
                   standard, bench, now>>
    /\ UNCHANGED outside

NormSpec == NormInit /\ [][NormName]_vars

\* only lower-case letters, digits and single spaces, no space at an end
Normalized(s) ==
    /\ \A i \in 1..Len(s) : IsAlnum(s[i]) \/ s[i] = " "
    /\ \A i \in 1..(Len(s) - 1) : ~(s[i] = " " /\ s[i + 1] = " ")
    /\ s # << >> => (s[1] # " " /\ s[Len(s)] # " ")

\* C29: what norm_name returns is made of lower-case letters, digits and
\* single spaces only, with no space at either end, and norm_name of it is
\* itself.
NormNameIdempotent ==
    op.cmd = "norm_name"
        => /\ Normalized(op.out)
           /\ norm_name_of(op.out) = op.out

\* a provider prefix was removed and punctuation at the end was dropped
PrefixAndPunctuationRemoved ==
    /\ op.cmd = "norm_name"
    /\ Len(op.s) = MaxLen
    /\ Head(op.s) = "A"
    /\ op.s[2] = ":"
    /\ ~IsAlnum(op.s[MaxLen])
    /\ op.out = <<"7">>

====
